---- MODULE Spec2Model ----
(***************************************************************************)
(* Model of the Medium scraping server (src/mcp_servers/web_scraping.py):  *)
(* the scrape orchestrator scrape_medium_article_content, the session      *)
(* validator validate_medium_cookies, the session store _load_cookies /    *)
(* _save_cookies and the content extractor _scrape_medium_article /        *)
(* _process_article_html.                                                  *)
(*                                                                         *)
(* Python strings are sequences of one-character strings, so that          *)
(* str.lower(), substring tests and str.strip() are computed, not assumed. *)
(***************************************************************************)
EXTENDS Integers, Sequences, FiniteSets, TLC

(***************************************************************************)
(* Bounds of the model.                                                    *)
(***************************************************************************)
\* longest container markup, in tokens, that SpecExtract enumerates
MaxTokens == 3
\* longest url, in characters, that Spec enumerates besides the samples
MaxUrlLen == 3

(***************************************************************************)
(* Strings.                                                                *)
(***************************************************************************)
UpperChars == <<"A","B","C","D","E","F","G","H","I","J","K","L","M",
                "N","O","P","Q","R","S","T","U","V","W","X","Y","Z">>
LowerChars == <<"a","b","c","d","e","f","g","h","i","j","k","l","m",
                "n","o","p","q","r","s","t","u","v","w","x","y","z">>

\* str.lower(), one character
LowerChar(c) ==
    IF \E i \in 1..26 : UpperChars[i] = c
    THEN LowerChars[CHOOSE i \in 1..26 : UpperChars[i] = c]
    ELSE c

Lower(s) == [i \in 1..Len(s) |-> LowerChar(s[i])]

\* `p in s` for two Python strings
Contains(s, p) ==
    \E i \in 1..(Len(s) - Len(p) + 1) : SubSeq(s, i, i + Len(p) - 1) = p

(***************************************************************************)
(* Content extractor: _process_article_html.                               *)
(*                                                                         *)
(* Markup is a sequence of tokens: character data, <img ...>, <div ...>    *)
(* and </div>.  Character data is a sequence of atoms, a word <<w>> or the *)
(* white space Sp; the text the function returns is a sequence of atoms    *)
(* too, in which a placeholder f"[IMG: {src}]" is the atom                 *)
(* <<"[IMG: ", src, "]">>.                                                 *)
(***************************************************************************)
Sp == <<" ">>

\* an attribute value as the parser hands it over: missing (None), the
\* empty string, a string of digits, or another string such as "800px"
NoAttr == [kind |-> "none", n |-> 0]
EmptyAttr == [kind |-> "empty", n |-> 0]
DigitsAttr(n) == [kind |-> "digits", n |-> n]
OtherAttr == [kind |-> "other", n |-> 0]

TextTok(atoms) ==
    [k |-> "text", s |-> atoms, hasSrc |-> FALSE, src |-> <<>>,
     width |-> NoAttr, height |-> NoAttr, cls |-> <<>>]
ImgTok(hasSrc, src, width, height) ==
    [k |-> "img", s |-> <<>>, hasSrc |-> hasSrc, src |-> src,
     width |-> width, height |-> height, cls |-> <<>>]
OpenTok(cls) ==
    [k |-> "open", s |-> <<>>, hasSrc |-> FALSE, src |-> <<>>,
     width |-> NoAttr, height |-> NoAttr, cls |-> cls]
CloseTok ==
    [k |-> "close", s |-> <<>>, hasSrc |-> FALSE, src |-> <<>>,
     width |-> NoAttr, height |-> NoAttr, cls |-> <<>>]
\* the NavigableString that replace_with(str) puts in the place of a tag
StrTok(atoms) ==
    [k |-> "str", s |-> atoms, hasSrc |-> FALSE, src |-> <<>>,
     width |-> NoAttr, height |-> NoAttr, cls |-> <<>>]

\* the html argument: None, or a string (its tokens)
NoHtml == [present |-> FALSE, toks |-> <<>>]
Html(toks) == [present |-> TRUE, toks |-> toks]

RECURSIVE LStrip(_)
LStrip(s) == IF s # <<>> /\ Head(s) = Sp THEN LStrip(Tail(s)) ELSE s

RECURSIVE RStrip(_)
RStrip(s) ==
    IF s # <<>> /\ s[Len(s)] = Sp THEN RStrip(SubSeq(s, 1, Len(s) - 1)) ELSE s

\* str.strip() of character data
Strip(s) == RStrip(LStrip(s))

\* len(html.strip()) == 0: the string holds white space only
IsBlank(toks) ==
    \A i \in 1..Len(toks) : toks[i].k = "text" /\ Strip(toks[i].s) = <<>>

\* BeautifulSoup(html, "html.parser"): adjacent character data is one
\* string of the tree
RECURSIVE ParseHtml(_)
ParseHtml(toks) ==
    IF Len(toks) < 2 THEN toks
    ELSE LET rest == ParseHtml(Tail(toks))
             t == Head(toks)
         IN  IF t.k = "text" /\ rest # <<>> /\ Head(rest).k = "text"
             THEN <<TextTok(t.s \o Head(rest).s)>> \o Tail(rest)
             ELSE <<t>> \o rest

\* soup.find_all("img"): the positions of the img elements, document order
FindAllImg(soup) ==
    LET RECURSIVE From(_)
        From(i) == IF i > Len(soup) THEN <<>>
                   ELSE IF soup[i].k = "img" THEN <<i>> \o From(i + 1)
                   ELSE From(i + 1)
    IN  From(1)

\* the class lists of the elements open before position i, innermost last;
\* an end tag with no open element is dropped by the parser
RECURSIVE OpenElements(_, _)
OpenElements(soup, i) ==
    IF i = 0 THEN <<>>
    ELSE LET st == OpenElements(soup, i - 1)
             t == soup[i]
         IN  IF t.k = "open" THEN Append(st, t.cls)
             ELSE IF t.k = "close" /\ st # <<>>
                  THEN SubSeq(st, 1, Len(st) - 1)
                  ELSE st

medium_image_patterns ==
    { <<"m","i","r","o",".","m","e","d","i","u","m",".","c","o","m">>,
      <<"/","r","e","s","i","z","e",":">>,
      <<"/","m","a","x","/">>,
      <<"/","f","i","t",":">>,
      <<"/","p","r","o","g","r","e","s","s","i","v","e",":">> }

article_content_classes ==
    {"graf-image", "section-image", "post-image", "progressiveMedia"}

\* width/height threshold of an article image
MinImageSize == 100
\* number of ancestor levels whose classes are collected
ParentLevels == 3

\* parent_classes of the img at position i: the classes of its nearest
\* ParentLevels ancestors
ParentClasses(soup, i) ==
    LET st == OpenElements(soup, i - 1)
        lo == IF Len(st) > ParentLevels THEN Len(st) - ParentLevels + 1 ELSE 1
    IN  UNION { { st[j][c] : c \in 1..Len(st[j]) } : j \in lo..Len(st) }

\* int(width) when width.isdigit(); the isinstance(width, int) test
AsInt(a) == IF a.kind = "digits" THEN [isInt |-> TRUE, n |-> a.n]
            ELSE [isInt |-> FALSE, n |-> 0]

\* is_article_image that looks at the parent of the image only
is_article_image_ParentOnly(soup, i) ==
    LET img == soup[i]
        byUrl == \E pattern \in medium_image_patterns :
                     Contains(img.src, pattern)
        truthy(a) == a.kind \in {"digits", "other"}
        w == AsInt(img.width)
        h == AsInt(img.height)
        bySize == /\ truthy(img.width) /\ truthy(img.height)
                  /\ w.isInt /\ h.isInt
                  /\ w.n > MinImageSize /\ h.n > MinImageSize
        st == OpenElements(soup, i - 1)
        byParent == /\ st # <<>>
                    /\ \E c \in article_content_classes :
                           c \in { st[Len(st)][k] : k \in 1..Len(st[Len(st)]) }
    IN  byUrl \/ bySize \/ byParent

\* the value is_article_image has when the placeholder decision is taken
is_article_image(soup, i) ==
    LET img == soup[i]
        byUrl == \E pattern \in medium_image_patterns :
                     Contains(img.src, pattern)
        truthy(a) == a.kind \in {"digits", "other"}
        w == AsInt(img.width)
        h == AsInt(img.height)
        bySize == /\ truthy(img.width) /\ truthy(img.height)
                  /\ w.isInt /\ h.isInt
                  /\ w.n > MinImageSize /\ h.n > MinImageSize
        byParent == \E c \in article_content_classes :
                        c \in ParentClasses(soup, i)
    IN  byUrl \/ bySize \/ byParent

Placeholder(src) == <<"[IMG: ", src, "]">>

\* ImgLoop without the filter: every image with a src gets a placeholder
RECURSIVE ImgLoop_NoFilter(_, _, _)
ImgLoop_NoFilter(soup, imgs, image_urls) ==
    IF imgs = <<>> THEN [soup |-> soup, image_urls |-> image_urls]
    ELSE LET i == Head(imgs)
             img == soup[i]
         IN  IF ~(img.hasSrc /\ img.src # <<>>)
             THEN ImgLoop_NoFilter(soup, Tail(imgs), image_urls)
             ELSE ImgLoop_NoFilter(
                      [soup EXCEPT ![i] = StrTok(<<Placeholder(img.src)>>)],
                      Tail(imgs), Append(image_urls, img.src))

\* ImgLoop that builds the list of URLs newest first
RECURSIVE ImgLoop_NewestFirst(_, _, _)
ImgLoop_NewestFirst(soup, imgs, image_urls) ==
    IF imgs = <<>> THEN [soup |-> soup, image_urls |-> image_urls]
    ELSE LET i == Head(imgs)
             img == soup[i]
         IN  IF ~(img.hasSrc /\ img.src # <<>>)
             THEN ImgLoop_NewestFirst(soup, Tail(imgs), image_urls)
             ELSE IF is_article_image(soup, i)
             THEN ImgLoop_NewestFirst(
                      [soup EXCEPT ![i] = StrTok(<<Placeholder(img.src)>>)],
                      Tail(imgs), <<img.src>> \o image_urls)
             ELSE ImgLoop_NewestFirst([soup EXCEPT ![i] = StrTok(<<>>)],
                                      Tail(imgs), image_urls)

\* the loop over soup.find_all("img"): imgs are the positions still to visit
RECURSIVE ImgLoop(_, _, _)
ImgLoop(soup, imgs, image_urls) ==
    IF imgs = <<>> THEN [soup |-> soup, image_urls |-> image_urls]
    ELSE LET i == Head(imgs)
             img == soup[i]
         IN  IF ~(img.hasSrc /\ img.src # <<>>)
             THEN ImgLoop(soup, Tail(imgs), image_urls)
             ELSE IF is_article_image(soup, i)
             THEN ImgLoop([soup EXCEPT ![i] = StrTok(<<Placeholder(img.src)>>)],
                          Tail(imgs), Append(image_urls, img.src))
             ELSE ImgLoop([soup EXCEPT ![i] = StrTok(<<>>)],
                          Tail(imgs), image_urls)

\* GetText that puts the placeholders after the text of the document
GetText_MarkersLast(soup) ==
    LET RECURSIVE Pieces(_, _)
        Pieces(i, kind) ==
            IF i > Len(soup) THEN <<>>
            ELSE IF soup[i].k = kind /\ Strip(soup[i].s) # <<>>
                 THEN <<Strip(soup[i].s)>> \o Pieces(i + 1, kind)
                 ELSE Pieces(i + 1, kind)
        RECURSIVE Join(_)
        Join(ps) == IF ps = <<>> THEN <<>>
                    ELSE IF Len(ps) = 1 THEN ps[1]
                    ELSE ps[1] \o <<Sp>> \o Join(Tail(ps))
    IN  Join(Pieces(1, "text") \o Pieces(1, "str"))

\* soup.get_text(separator=" ", strip=True): every string of the tree,
\* stripped, the empty ones dropped, joined by the separator
GetText(soup) ==
    LET RECURSIVE Pieces(_)
        Pieces(i) ==
            IF i > Len(soup) THEN <<>>
            ELSE IF soup[i].k \in {"text", "str"} /\ Strip(soup[i].s) # <<>>
                 THEN <<Strip(soup[i].s)>> \o Pieces(i + 1)
                 ELSE Pieces(i + 1)
        RECURSIVE Join(_)
        Join(ps) == IF ps = <<>> THEN <<>>
                    ELSE IF Len(ps) = 1 THEN ps[1]
                    ELSE ps[1] \o <<Sp>> \o Join(Tail(ps))
    IN  Join(Pieces(1))

\* process_article_html without the guard of line 1049: BeautifulSoup(None)
\* raises TypeError
process_article_html_NoGuard(html) ==
    IF ~html.present
    THEN [raised |-> TRUE, text |-> <<>>, images |-> <<>>]
    ELSE LET soup == ParseHtml(html.toks)
             done == ImgLoop(soup, FindAllImg(soup), <<>>)
         IN  [raised |-> FALSE, text |-> GetText(done.soup),
              images |-> done.image_urls]

\* _process_article_html(html) -> (text, image_urls); raised tells whether
\* the call ends in an exception instead
process_article_html(html) ==
    IF ~html.present \/ html.toks = <<>> \/ IsBlank(html.toks)
    THEN [raised |-> FALSE, text |-> <<>>, images |-> <<>>]
    ELSE LET soup == ParseHtml(html.toks)
             done == ImgLoop(soup, FindAllImg(soup), <<>>)
         IN  [raised |-> FALSE, text |-> GetText(done.soup),
              images |-> done.image_urls]

(***************************************************************************)
(* Content extractor: _scrape_medium_article.                              *)
(***************************************************************************)
\* the known site suffix of a page title
MediumSuffix == <<" ","|"," ","M","e","d","i","u","m">>

\* the count of entries of article_selectors
NumArticleSelectors == 8

\* article_name.split(" | Medium")[0]: the text before the first occurrence
SplitFirst(s, sep) ==
    IF ~Contains(s, sep) THEN s
    ELSE LET i == CHOOSE k \in 1..(Len(s) - Len(sep) + 1) :
                      /\ SubSeq(s, k, k + Len(sep) - 1) = sep
                      /\ \A j \in 1..(k - 1) : SubSeq(s, j, j + Len(sep) - 1) # sep
         IN  SubSeq(s, 1, i - 1)

\* the title of the result
ArticleName(title) ==
    IF title # <<>> /\ Contains(title, MediumSuffix)
    THEN SplitFirst(title, MediumSuffix)
    ELSE title

\* what one candidate of article_selectors yields on a page: no match, a
\* failing query, or the inner markup of the first match
Missing == [kind |-> "missing", html |-> NoHtml]
QueryError == [kind |-> "error", html |-> NoHtml]
Found(toks) == [kind |-> "found", html |-> Html(toks)]

\* a Python string is truthy when it is not empty
NonEmptyStr(html) == html.present /\ html.toks # <<>>

\* the loop over article_selectors: article_html after the loop, starting
\* at candidate i with the value cur
RECURSIVE SelectorLoop(_, _, _)
SelectorLoop(chain, i, cur) ==
    IF i > Len(chain) THEN cur
    ELSE IF chain[i].kind = "found"
         THEN IF NonEmptyStr(chain[i].html) /\ ~IsBlank(chain[i].html.toks)
              THEN chain[i].html
              ELSE SelectorLoop(chain, i + 1, chain[i].html)
         ELSE SelectorLoop(chain, i + 1, cur)

\* article_html handed to _process_article_html: the loop's value, or the
\* page body when that value is the empty string
ArticleHtml(chain, body) ==
    LET looped == SelectorLoop(chain, 1, Html(<<>>))
    IN  IF ~NonEmptyStr(looped)
        THEN IF body.kind = "found" THEN body.html ELSE looped
        ELSE looped

\* the dictionary _scrape_medium_article returns
scrape_medium_article(title, chain, body, short_url) ==
    LET processed == process_article_html(ArticleHtml(chain, body))
    IN  [Name |-> ArticleName(title), Link |-> short_url,
         text |-> processed.text, Images |-> processed.images]

(***************************************************************************)
(* urllib.parse.urlparse, as far as scheme and netloc go.                  *)
(***************************************************************************)
Letters == { LowerChars[i] : i \in 1..26 } \cup { UpperChars[i] : i \in 1..26 }
DigitChars == {"0","1","2","3","4","5","6","7","8","9"}
scheme_chars == Letters \cup DigitChars \cup {"+", "-", "."}
NetlocEnd == {"/", "?", "#"}

\* str.find: the first position of c in s, 0 when there is none (1-based)
FindChar(s, c) ==
    IF \E i \in 1..Len(s) : s[i] = c
    THEN CHOOSE i \in 1..Len(s) : s[i] = c /\ \A j \in 1..(i - 1) : s[j] # c
    ELSE 0

\* a bracketed host that ipaddress accepts: hexadecimal groups with exactly
\* one "::" (hosts of eight full groups are beyond the model's lengths)
IPv6Chars == DigitChars \cup {":", "a", "b", "c", "d", "e", "f"}
ValidBracketedHost(host) ==
    /\ \A k \in 1..Len(host) : host[k] \in IPv6Chars
    /\ Cardinality({ k \in 1..(Len(host) - 1) :
                        host[k] = ":" /\ host[k + 1] = ":" }) = 1
    /\ (Len(host) > 2 /\ host[1] = ":") => host[2] = ":"
    /\ (Len(host) > 2 /\ host[Len(host)] = ":") => host[Len(host) - 1] = ":"
    /\ \A k \in 1..(Len(host) - 4) :
           \E j \in k..(k + 4) : host[j] = ":"

\* url.lstrip(): leading white space of a character string dropped
RECURSIVE LStripStr(_)
LStripStr(s) == IF s # <<>> /\ Head(s) = " " THEN LStripStr(Tail(s)) ELSE s

\* urlsplit: [raises, scheme, netloc]
urlparse(u) ==
    LET url0 == LStripStr(u)
        i == FindChar(url0, ":")
        hasScheme == /\ i > 1
                     /\ url0[1] \in Letters
                     /\ \A k \in 1..(i - 1) : url0[k] \in scheme_chars
        scheme == IF hasScheme THEN Lower(SubSeq(url0, 1, i - 1)) ELSE <<>>
        url == IF hasScheme THEN SubSeq(url0, i + 1, Len(url0)) ELSE url0
        hasNetloc == Len(url) >= 2 /\ url[1] = "/" /\ url[2] = "/"
        rest == SubSeq(url, 3, Len(url))
        stop == IF \E k \in 1..Len(rest) : rest[k] \in NetlocEnd
                THEN CHOOSE k \in 1..Len(rest) :
                         /\ rest[k] \in NetlocEnd
                         /\ \A j \in 1..(k - 1) : rest[j] \notin NetlocEnd
                ELSE Len(rest) + 1
        netloc == IF hasNetloc THEN SubSeq(rest, 1, stop - 1) ELSE <<>>
        lb == \E k \in 1..Len(netloc) : netloc[k] = "["
        rb == \E k \in 1..Len(netloc) : netloc[k] = "]"
        host == SubSeq(netloc, FindChar(netloc, "[") + 1,
                       FindChar(netloc, "]") - 1)
        badBrackets == \/ lb /\ ~rb
                       \/ rb /\ ~lb
                       \/ /\ lb /\ rb
                          /\ \/ FindChar(netloc, "[") > FindChar(netloc, "]")
                             \/ ~ValidBracketedHost(host)
    IN  [raises |-> hasNetloc /\ badBrackets, scheme |-> scheme,
         netloc |-> netloc]

(***************************************************************************)
(* State of the server process and of one tool call.                       *)
(***************************************************************************)
VARIABLES
    op,            \* the tool that is running: "scrape", "validate", "extract"
    pc,            \* the position in the running tool, "idle" between calls
    calls,         \* tool calls started so far
    short_url,     \* the argument of scrape
    file,          \* the session file MEDIUM_COOKIES_FILE
    browser,       \* the browser of this call: "none", "open", "closed"
    pages,         \* the pages of this call, each "none", "open", "closed"
    cookies,       \* the cookies of the browsing context
    pending,       \* the value the call is about to return while its
                   \* finally blocks still run
    result,        \* the value the call returned
    events,        \* what the call did so far, in order
    loaded,        \* the cookies the validator read from the session file
    page_content,  \* page.content() of the article page
    html,          \* the argument of _process_article_html
    processed,     \* the value _process_article_html returned
    view,          \* the page the probes of a login check look at
    conversation,             \* app.py: the messages claude_conversation keeps
    iteration_count,          \* app.py: iterations of its loop started so far
    final_response,           \* app.py: the text it is going to return
    max_iterations,           \* app.py: argument of claude_conversation
    max_conversation_length,  \* app.py: argument of claude_conversation
    email_body,               \* gmail.py: the argument of extract_medium_articles
    articles                  \* gmail.py: the articles extract_medium_articles found

\* the state of the client (app.py) and of the mail server (gmail.py)
appVars == <<conversation, iteration_count, final_response, max_iterations,
             max_conversation_length, email_body, articles>>

\* neither claude_conversation nor extract_medium_articles is running
AppIdle ==
    /\ conversation = <<>>
    /\ iteration_count = 0
    /\ final_response = <<>>
    /\ max_iterations = 0
    /\ max_conversation_length = 0
    /\ email_body = <<>>
    /\ articles = <<>>

vars == <<op, pc, calls, short_url, file, browser, pages, cookies, pending,
          result, events, loaded, page_content, html, processed, view,
          appVars>>

\* selectors of a probe list that find something on a sampled page
MaxMatching == 2

\* tool calls per behaviour
MaxCalls == 2

(***************************************************************************)
(* Values.                                                                 *)
(***************************************************************************)
\* a value a tool returns: an error dictionary, an article dictionary, a
\* validator dictionary, or an exception that leaves the tool ("raised")
NoResult == [kind |-> "none", error |-> FALSE, Name |-> <<>>, text |-> <<>>,
             Images |-> <<>>]
Failure(kind) == [kind |-> kind, error |-> TRUE, Name |-> <<>>, text |-> <<>>,
                  Images |-> <<>>]
Article(data) == [kind |-> "article", error |-> FALSE, Name |-> data.Name,
                  text |-> data.text, Images |-> data.Images]
Valid == [kind |-> "valid", error |-> FALSE, Name |-> <<>>, text |-> <<>>,
          Images |-> <<>>]
Raised == [kind |-> "raised", error |-> FALSE, Name |-> <<>>, text |-> <<>>,
           Images |-> <<>>]

NoProcessed == [done |-> FALSE, raised |-> FALSE, text |-> <<>>,
                images |-> <<>>]

\* the session file: missing, present but unreadable, present but not
\* JSON, or a JSON array of cookies
\* dir is the directory part of MEDIUM_COOKIES_FILE: "none" when the path has
\* no directory part (the default, line 18), else "missing" or "present"
NoFile == [state |-> "absent", cookies |-> <<>>, dir |-> "none"]
Unreadable == [state |-> "unreadable", cookies |-> <<>>, dir |-> "none"]
Corrupt == [state |-> "corrupt", cookies |-> <<>>, dir |-> "none"]
Stored(cs) == [state |-> "ok", cookies |-> cs, dir |-> "none"]
\* the same file under a path whose directory part is d
InDir(f, d) == [f EXCEPT !.dir = d]

\* cookies: a session the site still accepts, and one it no longer accepts
LiveSession == <<"sid_live">>
StaleSession == <<"sid_stale">>
\* the site treats a browsing context as signed in
SignedIn(cs) == \E i \in 1..Len(cs) : cs[i] = "sid_live"

PageIds == {"login", "article", "home"}
NoPages == [p \in PageIds |-> "none"]

\* the argument of scrape: a string, or another Python value (None, 0, 7)
StrArg(s) == [isStr |-> TRUE, truthy |-> s # <<>>, s |-> s]
OtherArg(truthy) == [isStr |-> FALSE, truthy |-> truthy, s |-> <<>>]
NoArg == OtherArg(FALSE)

(***************************************************************************)
(* Inputs.                                                                 *)
(***************************************************************************)
UrlAlphabet == {"h", ":", "/"}

\* every string over alphabet of length at most n
RECURSIVE StringsUpTo(_, _)
StringsUpTo(alphabet, n) ==
    IF n = 0 THEN {<<>>}
    ELSE LET shorter == StringsUpTo(alphabet, n - 1)
         IN  shorter \cup { Append(w, c) : w \in shorter, c \in alphabet }

NotAUrl == <<"n","o","t","-","a","-","u","r","l">>
ArticleUrl == <<"h",":","/","/","m","/","a">>
SampleUrls ==
    { NotAUrl, ArticleUrl,
      <<"H",":","/","/","m">>,            \* scheme in upper case
      <<"/","/","m","/","a">>,            \* a host and no scheme
      <<"h",":","/","m","/","a">>,        \* a scheme and no host
      <<"h",":","/","/","?","a">>,        \* an empty host before the query
      <<" ","h",":","/","/","m">>,        \* leading white space
      <<"1",":","/","/","m">>,            \* a scheme may not start with a digit
      <<"h",":","/","/","[">>,            \* urlparse raises ValueError
      <<"h",":","/","/","[",":",":","1","]">> }

ScrapeArgs ==
    { OtherArg(TRUE), OtherArg(FALSE) }
    \cup { StrArg(u) : u \in StringsUpTo(UrlAlphabet, MaxUrlLen) \cup SampleUrls }

\* what the session file may hold when the server starts
InitialFiles ==
    { NoFile, Unreadable, Corrupt, Stored(<<>>), Stored(LiveSession),
      Stored(StaleSession) }

\* rendered content of an article page: two pieces of text
ContentPieces ==
    { <<>>,
      <<"s","t","o","r","y"," ">>,
      <<"S","i","g","n"," ","I","n">>,
      <<"J","O","I","N"," ","u","s">>,
      <<"J","o","i","n"," ","M","e","d","i","u","m">>,
      <<"B","e","c","o","m","e"," ","A"," ","M","e","m","b","e","r">> }
ArticleContents == { a \o b : a \in ContentPieces, b \in ContentPieces }

\* page titles
Titles == { <<>>, <<"T">>, <<"T">> \o MediumSuffix }

\* image sources: one on the image CDN, two elsewhere
CdnSrc == <<"m","/","f","i","t",":","8","/","x">>
IconSrc == <<"i",".","p","n","g">>
OtherSrc == <<"j",".","p","n","g">>

Hello == <<"Hello">>
World == <<"World">>

\* the tokens container markup is made of
MarkupTokens ==
    { TextTok(<<Hello>>), TextTok(<<World>>), TextTok(<<Sp>>),
      TextTok(<<Sp, Hello, Sp>>),
      ImgTok(TRUE, CdnSrc, NoAttr, NoAttr),
      ImgTok(TRUE, IconSrc, DigitsAttr(16), DigitsAttr(16)),
      ImgTok(TRUE, IconSrc, DigitsAttr(800), DigitsAttr(600)),
      ImgTok(TRUE, IconSrc, DigitsAttr(800), OtherAttr),
      ImgTok(TRUE, OtherSrc, DigitsAttr(100), DigitsAttr(101)),
      ImgTok(TRUE, <<>>, DigitsAttr(800), DigitsAttr(600)),
      ImgTok(FALSE, <<>>, NoAttr, NoAttr),
      OpenTok(<<"graf-image">>), OpenTok(<<"x">>), CloseTok }

\* Scenario A and Scenario B of the specification
ScenarioA == << TextTok(<<Hello>>), ImgTok(TRUE, CdnSrc, NoAttr, NoAttr),
                TextTok(<<World>>) >>
ScenarioB == << TextTok(<<Hello>>),
                ImgTok(TRUE, IconSrc, DigitsAttr(16), DigitsAttr(16)),
                TextTok(<<World>>) >>

\* the arguments of _process_article_html that SpecExtract enumerates
HtmlInputs ==
    { NoHtml } \cup { Html(t) : t \in StringsUpTo(MarkupTokens, MaxTokens) }
        \cup { Html(<< OpenTok(<<"x">>), OpenTok(<<"post-image", "x">>),
                       OpenTok(<<"x">>), OpenTok(<<"x">>),
                       ImgTok(TRUE, IconSrc, NoAttr, NoAttr) >>),
                Html(<< OpenTok(<<"progressiveMedia">>), OpenTok(<<"x">>),
                       OpenTok(<<"x">>), OpenTok(<<"x">>),
                       ImgTok(TRUE, IconSrc, NoAttr, NoAttr) >>),
                Html(<< OpenTok(<<"section-image">>), CloseTok,
                       OpenTok(<<"graf-image-x">>),
                       ImgTok(TRUE, OtherSrc, EmptyAttr, DigitsAttr(800)) >>) }

\* rendered article pages: what the candidates of article_selectors and the
\* page body yield
AllMissing == [i \in 1..NumArticleSelectors |-> Missing]
SamplePages ==
    { [chain |-> [AllMissing EXCEPT ![1] = Found(ScenarioA)],
       body |-> Found(ScenarioB)],
      [chain |-> [AllMissing EXCEPT ![1] = QueryError, ![3] = Found(ScenarioB)],
       body |-> Found(ScenarioA)],
      [chain |-> [AllMissing EXCEPT ![2] = Found(<<TextTok(<<Sp>>)>>)],
       body |-> Found(ScenarioA)],
      [chain |-> AllMissing, body |-> Found(ScenarioA)],
      [chain |-> AllMissing, body |-> Found(<<>>)],
      [chain |-> AllMissing, body |-> QueryError] }

(***************************************************************************)
(* Session store: _load_cookies and _save_cookies.                         *)
(***************************************************************************)
\* load_cookies without the test of line 1024: if not cookies or len == 0
load_cookies_NoEmptyCheck(f, cs, addOk) ==
    IF f.state = "absent"
    THEN [ok |-> FALSE, cookies |-> cs, events |-> <<"file_exists">>]
    ELSE IF f.state \in {"unreadable", "corrupt"}
    THEN [ok |-> FALSE, cookies |-> cs,
          events |-> <<"file_exists", "file_open_r">>]
    ELSE IF ~addOk
    THEN [ok |-> FALSE, cookies |-> cs,
          events |-> <<"file_exists", "file_open_r", "file_read">>]
    ELSE [ok |-> TRUE, cookies |-> cs \o f.cookies,
          events |-> <<"file_exists", "file_open_r", "file_read",
                       "add_cookies">>]

\* _load_cookies(context): [ok, cookies, events] for the file f, the cookies
\* cs of the context and whether context.add_cookies succeeds
load_cookies(f, cs, addOk) ==
    IF f.state = "absent"
    THEN [ok |-> FALSE, cookies |-> cs, events |-> <<"file_exists">>]
    ELSE IF f.state \in {"unreadable", "corrupt"}
    THEN [ok |-> FALSE, cookies |-> cs,
          events |-> <<"file_exists", "file_open_r">>]
    ELSE IF f.cookies = <<>>
    THEN [ok |-> FALSE, cookies |-> cs,
          events |-> <<"file_exists", "file_open_r", "file_read">>]
    ELSE IF ~addOk
    THEN [ok |-> FALSE, cookies |-> cs,
          events |-> <<"file_exists", "file_open_r", "file_read">>]
    ELSE [ok |-> TRUE, cookies |-> cs \o f.cookies,
          events |-> <<"file_exists", "file_open_r", "file_read",
                       "add_cookies">>]

\* how far _save_cookies gets before one of its calls raises; "vanished" is
\* a file that no longer exists when line 995 looks for it
SaveOutcomes ==
    {"ok", "cookies_raise", "mkdir_fail", "open_fail", "dump_fail", "vanished"}

\* MakeDirs with the os.makedirs call of line 989 left out
MakeDirs_Skipped(f) == f

\* lines 987-989: os.makedirs(cookie_dir, exist_ok=True) when the path has a
\* directory part that does not exist
MakeDirs(f) == IF f.dir = "missing" THEN InDir(f, "present") ELSE f

\* save_cookies without the test of line 983: if not cookies or len == 0
save_cookies_WritesEmpty(f, cs, outcome) ==
    IF outcome = "cookies_raise"
    THEN [ok |-> FALSE, file |-> f, events |-> <<"save", "save:failed">>]
    ELSE IF outcome = "mkdir_fail" /\ f.dir = "missing"
    THEN [ok |-> FALSE, file |-> f,
          events |-> <<"save", "makedirs", "save:failed">>]
    ELSE LET d == MakeDirs(f)
             mk == IF f.dir = "missing" THEN <<"makedirs">> ELSE <<>>
         IN  IF outcome = "open_fail"
             THEN [ok |-> FALSE, file |-> d,
                   events |-> <<"save">> \o mk \o <<"save:failed">>]
             ELSE IF outcome = "dump_fail"
             THEN [ok |-> FALSE,
                   file |-> [d EXCEPT !.state = "corrupt", !.cookies = <<>>],
                   events |-> <<"save">> \o mk
                              \o <<"file_write", "save:failed">>]
             ELSE IF outcome = "vanished"
             THEN [ok |-> FALSE,
                   file |-> [d EXCEPT !.state = "absent", !.cookies = <<>>],
                   events |-> <<"save">> \o mk
                              \o <<"file_write", "file_written",
                                   "save:failed">>]
             ELSE [ok |-> TRUE,
                   file |-> [d EXCEPT !.state = "ok", !.cookies = cs],
                   events |-> <<"save">> \o mk
                              \o <<"file_write", "file_written", "save:ok">>]

\* _save_cookies(context): [ok, file, events] for the file f and the cookies
\* cs of the context
save_cookies(f, cs, outcome) ==
    IF outcome = "cookies_raise" \/ cs = <<>>
    THEN [ok |-> FALSE, file |-> f, events |-> <<"save", "save:failed">>]
    ELSE IF outcome = "mkdir_fail" /\ f.dir = "missing"
    THEN [ok |-> FALSE, file |-> f,
          events |-> <<"save", "makedirs", "save:failed">>]
    ELSE LET d == MakeDirs(f)
             mk == IF f.dir = "missing" THEN <<"makedirs">> ELSE <<>>
         IN  IF outcome = "open_fail"
             THEN [ok |-> FALSE, file |-> d,
                   events |-> <<"save">> \o mk \o <<"save:failed">>]
             ELSE IF outcome = "dump_fail"
             THEN [ok |-> FALSE,
                   file |-> [d EXCEPT !.state = "corrupt", !.cookies = <<>>],
                   events |-> <<"save">> \o mk
                              \o <<"file_write", "save:failed">>]
             ELSE IF outcome = "vanished"
             THEN [ok |-> FALSE,
                   file |-> [d EXCEPT !.state = "absent", !.cookies = <<>>],
                   events |-> <<"save">> \o mk
                              \o <<"file_write", "file_written",
                                   "save:failed">>]
             ELSE [ok |-> TRUE,
                   file |-> [d EXCEPT !.state = "ok", !.cookies = cs],
                   events |-> <<"save">> \o mk
                              \o <<"file_write", "file_written", "save:ok">>]

(***************************************************************************)
(* Login probes: the selector loop and the content fallback of             *)
(* validate_medium_cookies.                                                *)
(***************************************************************************)
\* lines 133-151
auth_indicators ==
    << "button[aria-label=\"User\"]", "img.avatar", "a[href*=\"/@\"]",
       "button:has-text(\"Write\")", "div[data-testid=\"user-menu\"]",
       "div[aria-label=\"Profile\"]", "img[alt*=\"Profile picture\"]",
       "button:has-text(\"Sign out\")", "a[href=\"/me\"]",
       "a[href=\"/me/stories\"]", "a:has-text(\"Member\")",
       "a:has-text(\"profile\")", "button:has-text(\"Notifications\")",
       "button:has-text(\"Lists\")", "button:has-text(\"Stories\")" >>

\* lines 171-177
logged_in_indicators ==
    { <<"S","i","g","n"," ","o","u","t">>,
      <<"Y","o","u","r"," ","s","t","o","r","i","e","s">>,
      <<"Y","o","u","r"," ","p","r","o","f","i","l","e">>,
      <<"A","c","c","o","u","n","t"," ","s","e","t","t","i","n","g","s">>,
      <<"W","r","i","t","e"," ","a"," ","s","t","o","r","y">> }

\* what a selector finds on a page: the elements it matches in document
\* order, each visible (TRUE) or not, or a query that raises
Matches(elems) == [raises |-> FALSE, elems |-> elems]
NoMatch == Matches(<<>>)
QueryRaises == [raises |-> TRUE, elems |-> <<>>]

\* line 159: locator(selector).count() > 0 and locator(selector).is_visible()
\* is "true", "false" or "raise"; is_visible() of a locator that resolves to
\* several elements raises a strict mode violation
CountAndIsVisible(m) ==
    IF m.raises THEN "raise"
    ELSE IF Len(m.elems) = 0 THEN "false"
    ELSE IF Len(m.elems) > 1 THEN "raise"
    ELSE IF m.elems[1] THEN "true" ELSE "false"

\* lines 157-165: the index of the first selector of probes, from i on, whose
\* check is true, 0 when there is none; a check that raises is skipped
RECURSIVE IndicatorLoop(_, _)
IndicatorLoop(probes, i) ==
    IF i > Len(probes) THEN 0
    ELSE IF CountAndIsVisible(probes[i]) = "true" THEN i
    ELSE IndicatorLoop(probes, i + 1)

\* lines 179-183: indicator.lower() in page_content.lower()
ContentCheck(content) ==
    \E indicator \in logged_in_indicators :
        Contains(Lower(content), Lower(indicator))

\* lines 154-183: [logged_in, selector, consulted, content_checked] for a page
check_logged_in(v) ==
    LET k == IndicatorLoop(v.probes, 1)
    IN  IF k > 0
        THEN [logged_in |-> TRUE, selector |-> k, consulted |-> k,
              content_checked |-> FALSE]
        ELSE [logged_in |-> ContentCheck(v.content), selector |-> 0,
              consulted |-> Len(v.probes), content_checked |-> TRUE]

\* a rendered page: what each selector of a probe list finds on it, its
\* content and its URL
View(probes, content, url) ==
    [probes |-> probes, content |-> content, url |-> url]
NoView == View(<<>>, <<>>, <<>>)

\* what a selector that finds something may find: one hidden element, one
\* visible element, two visible elements, a hidden element followed by a
\* visible one, or a query that raises
ProbeOutcomes ==
    { Matches(<<FALSE>>), Matches(<<TRUE>>), Matches(<<TRUE, TRUE>>),
      Matches(<<FALSE, TRUE>>), QueryRaises }

\* the outcomes of n selectors of which at most k, all among the selectors
\* at, find something
RECURSIVE ProbeAssignments(_, _, _)
ProbeAssignments(n, at, k) ==
    IF k = 0 THEN { [i \in 1..n |-> NoMatch] }
    ELSE LET less == ProbeAssignments(n, at, k - 1)
         IN  less \cup { [a EXCEPT ![i] = o] :
                            a \in less, i \in at, o \in ProbeOutcomes }

\* home pages: something is found by at most MaxMatching selectors among the
\* first, the profile link, the sign out button and the last of
\* auth_indicators; page.content() has a logged-in phrase or not
HomeViews ==
    { View(a, c, <<>>) :
        a \in ProbeAssignments(Len(auth_indicators), {1, 3, 8, 15},
                               MaxMatching),
        c \in { <<>>,
                <<"S","I","G","N"," ","O","U","T">>,
                <<"S","i","g","n"," ","i","n">>,
                <<"x"," ","W","r","i","t","e"," ","a"," ","s","t","o","r","y">>,
                <<"Y","o","u","r"," ","p","r","o","f","i","l","e","s">> } }

\* lines 191-206: what the login check says of the home pages
HomeVerdicts == { check_logged_in(v).logged_in : v \in HomeViews }

(***************************************************************************)
(* Scrape orchestrator: scrape_medium_article_content.                     *)
(***************************************************************************)
login_phrases ==
    { <<"s","i","g","n"," ","i","n">>,
      <<"b","e","c","o","m","e"," ","a"," ","m","e","m","b","e","r">>,
      <<"j","o","i","n"," ","m","e","d","i","u","m">> }

\* is_login_page without .lower()
is_login_page_CaseSensitive(content) ==
    \E phrase \in login_phrases : Contains(content, phrase)

\* is_login_page of the rendered content
is_login_page(content) ==
    \E phrase \in login_phrases : Contains(Lower(content), phrase)

\* the outcomes of _login_medium as its caller sees them: the handler of line
\* 950 turns every exception of the login flow into authenticated=False, so
\* the handler of line 366 has nothing to catch
LoginOutcomes == {"authenticated", "failed"}

Idle == pc = "idle"

\* a tool call starts
Call ==
    /\ Idle
    /\ calls < MaxCalls
    /\ calls' = calls + 1
    /\ \/ /\ op' = "scrape"
          /\ short_url' \in ScrapeArgs
          /\ pc' = "s_validate"
       \/ /\ op' = "validate"
          /\ short_url' = NoArg
          /\ pc' = "v_file"
    /\ browser' = "none"
    /\ pages' = NoPages
    /\ cookies' = <<>>
    /\ pending' = NoResult
    /\ result' = NoResult
    /\ events' = <<>>
    /\ loaded' = <<>>
    /\ page_content' = <<>>
    /\ UNCHANGED <<file, html, processed, view, appVars>>

\* the call returns r
Return(r) ==
    /\ result' = r
    /\ pending' = NoResult
    /\ pc' = "idle"

\* the finally blocks run with r as the value to return
Unwind(r, to) ==
    /\ pending' = r
    /\ pc' = to

Log(es) == events' = events \o es

\* S_Validate with the host test left out: if not parts.scheme
S_Validate_SchemeOnly ==
    /\ pc = "s_validate"
    /\ IF ~short_url.truthy \/ ~short_url.isStr
       THEN Return(Failure("invalidInput"))
       ELSE LET parts == urlparse(short_url.s)
            IN  IF parts.raises THEN Return(Failure("unexpectedError"))
                ELSE IF parts.scheme = <<>>
                THEN Return(Failure("invalidInput"))
                ELSE pending' = NoResult /\ result' = NoResult
                     /\ pc' = "s_playwright"
    /\ UNCHANGED <<op, calls, short_url, file, browser, pages, cookies, events,
                   loaded, page_content, html, processed, view, appVars>>

\* lines 302-316: the url checks
S_Validate ==
    /\ pc = "s_validate"
    /\ IF ~short_url.truthy \/ ~short_url.isStr
       THEN Return(Failure("invalidInput"))
       ELSE LET parts == urlparse(short_url.s)
            IN  IF parts.raises THEN Return(Failure("unexpectedError"))
                ELSE IF parts.scheme = <<>> \/ parts.netloc = <<>>
                THEN Return(Failure("invalidInput"))
                ELSE pending' = NoResult /\ result' = NoResult
                     /\ pc' = "s_playwright"
    /\ UNCHANGED <<op, calls, short_url, file, browser, pages, cookies, events,
                   loaded, page_content, html, processed, view, appVars>>

\* line 320: async with async_playwright() as p
S_Playwright ==
    /\ pc = "s_playwright"
    /\ \/ pc' = "s_launch" /\ UNCHANGED <<pending, result>>
       \/ Return(Failure("unexpectedError"))
    /\ UNCHANGED <<op, calls, short_url, file, browser, pages, cookies, events,
                   loaded, page_content, html, processed, view, appVars>>

\* line 323: p.chromium.launch
S_Launch ==
    /\ pc = "s_launch"
    /\ \/ /\ browser' = "open"
          /\ Log(<<"launch">>)
          /\ pc' = "s_context"
          /\ UNCHANGED pending
       \/ /\ Unwind(Failure("automationError"), "s_browser_close")
          /\ Log(<<"raise:launch">>)
          /\ UNCHANGED browser
    /\ UNCHANGED <<op, calls, short_url, file, pages, cookies, result, loaded,
                   page_content, html, processed, view, appVars>>

\* line 326: browser.new_context
S_NewContext ==
    /\ pc = "s_context"
    /\ \/ pc' = "s_load" /\ UNCHANGED <<pending, events>>
       \/ /\ Unwind(Failure("automationError"), "s_browser_close")
          /\ Log(<<"raise:new_context">>)
    /\ UNCHANGED <<op, calls, short_url, file, browser, pages, cookies, result,
                   loaded, page_content, html, processed, view, appVars>>

\* S_LoadCookies that removes a session file it could not load
S_LoadCookies_RemovesBadFile ==
    /\ pc = "s_load"
    /\ \E addOk \in BOOLEAN :
          LET r == load_cookies(file, cookies, addOk)
          IN  /\ cookies' = r.cookies
              /\ Log(r.events)
              /\ file' = IF r.ok THEN file ELSE [file EXCEPT !.state = "absent"]
              /\ pc' = IF r.ok THEN "s_article_page" ELSE "s_login_page"
    /\ UNCHANGED <<op, calls, short_url, browser, pages, pending, result,
                   loaded, page_content, html, processed, view, appVars>>

\* lines 332-336: _load_cookies(context) and the branch on its value
S_LoadCookies ==
    /\ pc = "s_load"
    /\ \E addOk \in BOOLEAN :
          LET r == load_cookies(file, cookies, addOk)
          IN  /\ cookies' = r.cookies
              /\ Log(r.events)
              /\ pc' = IF r.ok THEN "s_article_page" ELSE "s_login_page"
    /\ UNCHANGED <<op, calls, short_url, file, browser, pages, pending, result,
                   loaded, page_content, html, processed, view, appVars>>

\* line 338: context.new_page() for the login
S_LoginPage ==
    /\ pc = "s_login_page"
    /\ \/ /\ pages' = [pages EXCEPT !["login"] = "open"]
          /\ pc' = "s_login"
          /\ UNCHANGED <<pending, events>>
       \/ /\ Unwind(Failure("automationError"), "s_browser_close")
          /\ Log(<<"raise:new_page">>)
          /\ UNCHANGED pages
    /\ UNCHANGED <<op, calls, short_url, file, browser, cookies, result, loaded,
                   page_content, html, processed, view, appVars>>

\* S_Login that goes on to the article after a login that failed
S_Login_IgnoresFailure ==
    /\ pc = "s_login"
    /\ \E outcome \in LoginOutcomes :
          /\ Log(<<"login", "goto:home", "login:" \o outcome>>)
          /\ IF outcome = "authenticated"
             THEN /\ cookies' \in {<<>>, StaleSession, LiveSession}
                  /\ pc' = "s_save"
                  /\ UNCHANGED pending
             ELSE /\ cookies' \in {<<>>, StaleSession}
                  /\ pc' = "s_login_close"
                  /\ UNCHANGED pending
    /\ UNCHANGED <<op, calls, short_url, file, browser, pages, result, loaded,
                   page_content, html, processed, view, appVars>>

\* lines 346-379: _login_medium(page) and what follows from its value
S_Login ==
    /\ pc = "s_login"
    /\ \E outcome \in LoginOutcomes :
          /\ Log(<<"login", "goto:home", "login:" \o outcome>>)
          /\ IF outcome = "authenticated"
             THEN /\ cookies' \in {<<>>, StaleSession, LiveSession}
                  /\ pc' = "s_save"
                  /\ UNCHANGED pending
             ELSE /\ cookies' \in {<<>>, StaleSession}
                  /\ Unwind(Failure("authenticationFailed"), "s_login_close")
    /\ UNCHANGED <<op, calls, short_url, file, browser, pages, result, loaded,
                   page_content, html, processed, view, appVars>>

\* S_Save where a save that fails ends the call as a failed login
S_Save_FailureAborts ==
    /\ pc = "s_save"
    /\ \E outcome \in SaveOutcomes :
          LET r == save_cookies(file, cookies, outcome)
          IN  /\ file' = r.file
              /\ Log(r.events)
              /\ IF r.ok
                 THEN pc' = "s_login_close" /\ UNCHANGED pending
                 ELSE Unwind(Failure("authenticationFailed"),
                             "s_login_close")
    /\ UNCHANGED <<op, calls, short_url, browser, pages, cookies,
                   result, loaded, page_content, html, processed, view, appVars>>

\* line 352: _save_cookies(context) after a login that succeeded
S_Save ==
    /\ pc = "s_save"
    /\ \E outcome \in SaveOutcomes :
          LET r == save_cookies(file, cookies, outcome)
          IN  /\ file' = r.file
              /\ Log(r.events)
    /\ pc' = "s_login_close"
    /\ UNCHANGED <<op, calls, short_url, browser, pages, cookies, pending,
                   result, loaded, page_content, html, processed, view, appVars>>

\* lines 380-382: finally: await page.close()
S_LoginClose ==
    /\ pc = "s_login_close"
    /\ \/ /\ pages' = [pages EXCEPT !["login"] = "closed"]
          /\ Log(<<"close:login">>)
          /\ IF pending = NoResult
             THEN pc' = "s_article_page" /\ UNCHANGED pending
             ELSE pc' = "s_browser_close" /\ UNCHANGED pending
       \/ /\ Unwind(Failure("automationError"), "s_browser_close")
          /\ Log(<<"raise:close:login">>)
          /\ UNCHANGED pages
    /\ UNCHANGED <<op, calls, short_url, file, browser, cookies, result, loaded,
                   page_content, html, processed, view, appVars>>

\* line 386: context.new_page() for the article
S_ArticlePage ==
    /\ pc = "s_article_page"
    /\ \/ /\ pages' = [pages EXCEPT !["article"] = "open"]
          /\ Log(<<"new_page:article">>)
          /\ pc' = "s_goto"
          /\ UNCHANGED pending
       \/ /\ Unwind(Failure("automationError"), "s_browser_close")
          /\ Log(<<"raise:new_page">>)
          /\ UNCHANGED pages
    /\ UNCHANGED <<op, calls, short_url, file, browser, cookies, result, loaded,
                   page_content, html, processed, view, appVars>>

\* line 391: page.goto(short_url); an exception of the article block is
\* caught at line 460
S_Goto ==
    /\ pc = "s_goto"
    /\ \/ /\ Log(<<"goto:article">>)
          /\ pc' = "s_settle"
          /\ UNCHANGED pending
       \/ /\ Unwind(Failure("extractionFailed"), "s_article_close")
          /\ Log(<<"goto:article", "raise:goto">>)
    /\ UNCHANGED <<op, calls, short_url, file, browser, pages, cookies, result,
                   loaded, page_content, html, processed, view, appVars>>

\* lines 394-405: wait_for_load_state, the settle delay, page.title()
S_Settle ==
    /\ pc = "s_settle"
    /\ \/ pc' = "s_content" /\ UNCHANGED <<pending, events>>
       \/ /\ Unwind(Failure("extractionFailed"), "s_article_close")
          /\ Log(<<"raise:settle">>)
    /\ UNCHANGED <<op, calls, short_url, file, browser, pages, cookies, result,
                   loaded, page_content, html, processed, view, appVars>>

\* lines 408-420: page.content() and the login page / paywall check
S_Content ==
    /\ pc = "s_content"
    /\ \/ /\ page_content' \in ArticleContents
          /\ IF is_login_page(page_content')
             THEN Unwind(Failure("paywallOrLoginRedirect"), "s_article_close")
             ELSE pc' = "s_extract" /\ UNCHANGED pending
          /\ Log(<<"content">>)
       \/ /\ Unwind(Failure("extractionFailed"), "s_article_close")
          /\ Log(<<"raise:content">>)
          /\ UNCHANGED page_content
    /\ UNCHANGED <<op, calls, short_url, file, browser, pages, cookies, result,
                   loaded, html, processed, view, appVars>>

\* what _scrape_medium_article yields on the sampled titles and pages, the
\* Link left to the call
ExtractedPages ==
    { scrape_medium_article(title, page.chain, page.body, <<>>) :
        title \in Titles, page \in SamplePages }

\* line 424 raising: an exception of _scrape_medium_article, or of the
\* debug capture of line 427, is caught at line 460
S_ExtractRaises ==
    /\ pc = "s_extract"
    /\ Unwind(Failure("extractionFailed"), "s_article_close")
    /\ Log(<<"extract", "raise:extract">>)
    /\ UNCHANGED <<op, calls, short_url, file, browser, pages, cookies, result,
                   loaded, page_content, html, processed, view, appVars>>

\* lines 424-458: _scrape_medium_article(page, short_url) and the return of
\* its dictionary
S_Extract ==
    \/ /\ pc = "s_extract"
       /\ \E data \in ExtractedPages :
             Unwind(Article([data EXCEPT !.Link = short_url.s]),
                    "s_article_close")
       /\ Log(<<"extract">>)
       /\ UNCHANGED <<op, calls, short_url, file, browser, pages, cookies,
                      result, loaded, page_content, html, processed, view, appVars>>
    \/ S_ExtractRaises

\* lines 474-476: finally: await page.close(); an exception is caught at
\* line 477
S_ArticleClose ==
    /\ pc = "s_article_close"
    /\ \/ /\ pages' = [pages EXCEPT !["article"] = "closed"]
          /\ Log(<<"close:article">>)
          /\ pc' = "s_browser_close"
          /\ UNCHANGED pending
       \/ /\ Unwind(Failure("automationError"), "s_browser_close")
          /\ Log(<<"raise:close:article">>)
          /\ UNCHANGED pages
    /\ UNCHANGED <<op, calls, short_url, file, browser, cookies, result, loaded,
                   page_content, html, processed, view, appVars>>

\* Browser.close() closes the pages of the browser with it
ClosedWithBrowser(ps) == [p \in PageIds |-> IF ps[p] = "open" THEN "closed"
                                            ELSE ps[p]]

\* S_BrowserClose that is skipped when the call was cancelled
S_BrowserClose_NotOnCancel ==
    /\ pc = "s_browser_close"
    /\ IF browser = "none" \/ pending = Raised
       THEN pc' = "s_exit" /\ UNCHANGED <<browser, pages, pending, events>>
       ELSE \/ /\ browser' = "closed"
               /\ pages' = ClosedWithBrowser(pages)
               /\ Log(<<"close:browser">>)
               /\ pc' = "s_exit"
               /\ UNCHANGED pending
            \/ /\ Unwind(Failure("unexpectedError"), "s_exit")
               /\ Log(<<"raise:close:browser">>)
               /\ UNCHANGED <<browser, pages>>
    /\ UNCHANGED <<op, calls, short_url, file, cookies, result, loaded,
                   page_content, html, processed, view, appVars>>

\* S_BrowserClose as a plain statement after the try block instead of a
\* finally block: skipped when a failure is on its way out
S_BrowserClose_NotFinally ==
    /\ pc = "s_browser_close"
    /\ IF browser = "none" \/ pending.error
       THEN pc' = "s_exit" /\ UNCHANGED <<browser, pages, pending, events>>
       ELSE \/ /\ browser' = "closed"
               /\ pages' = ClosedWithBrowser(pages)
               /\ Log(<<"close:browser">>)
               /\ pc' = "s_exit"
               /\ UNCHANGED pending
            \/ /\ Unwind(Failure("unexpectedError"), "s_exit")
               /\ Log(<<"raise:close:browser">>)
               /\ UNCHANGED <<browser, pages>>
    /\ UNCHANGED <<op, calls, short_url, file, cookies, result, loaded,
                   page_content, html, processed, view, appVars>>

\* lines 485-488: finally: if 'browser' in locals(): await browser.close();
\* an exception leaves the inner try statement and is caught at line 489
S_BrowserClose ==
    /\ pc = "s_browser_close"
    /\ IF browser = "none"
       THEN pc' = "s_exit" /\ UNCHANGED <<browser, pages, pending, events>>
       ELSE \/ /\ browser' = "closed"
               /\ pages' = ClosedWithBrowser(pages)
               /\ Log(<<"close:browser">>)
               /\ pc' = "s_exit"
               /\ UNCHANGED pending
            \/ /\ Unwind(Failure("unexpectedError"), "s_exit")
               /\ Log(<<"raise:close:browser">>)
               /\ UNCHANGED <<browser, pages>>
    /\ UNCHANGED <<op, calls, short_url, file, cookies, result, loaded,
                   page_content, html, processed, view, appVars>>

\* S_Exit without the handler of line 489
S_Exit_NoHandler ==
    /\ pc = "s_exit"
    /\ \/ Return(pending) /\ UNCHANGED events
       \/ Return(Raised) /\ Log(<<"raise:exit">>)
    /\ UNCHANGED <<op, calls, short_url, file, browser, pages, cookies,
                   loaded, page_content, html, processed, view, appVars>>

\* the end of the async with block, then the return; an exception of the
\* exit is caught at line 489
S_Exit ==
    /\ pc = "s_exit"
    /\ \/ Return(pending) /\ UNCHANGED events
       \/ Return(Failure("unexpectedError")) /\ Log(<<"raise:exit">>)
    /\ UNCHANGED <<op, calls, short_url, file, browser, pages, cookies,
                   loaded, page_content, html, processed, view, appVars>>

(***************************************************************************)
(* Session validator: validate_medium_cookies.                             *)
(***************************************************************************)
\* lines 66-106: the file checks, before any browser is started
V_File ==
    /\ pc = "v_file"
    /\ IF file.state = "absent"
       THEN /\ Return(Failure("invalid"))
            /\ Log(<<"file_exists">>)
            /\ UNCHANGED loaded
       ELSE IF file.state \in {"unreadable", "corrupt"}
       THEN /\ Return(Failure("invalid"))
            /\ Log(<<"file_exists", "file_open_r">>)
            /\ UNCHANGED loaded
       ELSE IF file.cookies = <<>>
       THEN /\ Return(Failure("invalid"))
            /\ Log(<<"file_exists", "file_open_r", "file_read">>)
            /\ UNCHANGED loaded
       ELSE /\ loaded' = file.cookies
            /\ Log(<<"file_exists", "file_open_r", "file_read">>)
            /\ pc' = "v_playwright"
            /\ UNCHANGED <<pending, result>>
    /\ UNCHANGED <<op, calls, short_url, file, browser, pages, cookies,
                   page_content, html, processed, view, appVars>>

\* line 110: async with async_playwright() as p; no handler encloses it
V_Playwright ==
    /\ pc = "v_playwright"
    /\ \/ pc' = "v_launch" /\ UNCHANGED <<pending, result>>
       \/ Return(Raised)
    /\ UNCHANGED <<op, calls, short_url, file, browser, pages, cookies, events,
                   loaded, page_content, html, processed, view, appVars>>

\* line 112: p.chromium.launch; an exception is caught at line 220
V_Launch ==
    /\ pc = "v_launch"
    /\ \/ /\ browser' = "open"
          /\ Log(<<"launch">>)
          /\ pc' = "v_context"
          /\ UNCHANGED pending
       \/ /\ Unwind(Failure("invalid"), "v_browser_close")
          /\ Log(<<"raise:launch">>)
          /\ UNCHANGED browser
    /\ UNCHANGED <<op, calls, short_url, file, pages, cookies, result, loaded,
                   page_content, html, processed, view, appVars>>

\* lines 115-121: browser.new_context and context.add_cookies(cookies)
V_Context ==
    /\ pc = "v_context"
    /\ \/ /\ cookies' = loaded
          /\ Log(<<"add_cookies">>)
          /\ pc' = "v_page"
          /\ UNCHANGED pending
       \/ /\ Unwind(Failure("invalid"), "v_browser_close")
          /\ Log(<<"raise:new_context">>)
          /\ UNCHANGED cookies
    /\ UNCHANGED <<op, calls, short_url, file, browser, pages, result, loaded,
                   page_content, html, processed, view, appVars>>

\* line 125: context.new_page()
V_Page ==
    /\ pc = "v_page"
    /\ \/ /\ pages' = [pages EXCEPT !["home"] = "open"]
          /\ pc' = "v_check"
          /\ UNCHANGED <<pending, events>>
       \/ /\ Unwind(Failure("invalid"), "v_browser_close")
          /\ Log(<<"raise:new_page">>)
          /\ UNCHANGED pages
    /\ UNCHANGED <<op, calls, short_url, file, browser, cookies, result, loaded,
                   page_content, html, processed, view, appVars>>

\* lines 128-216: page.goto of the home view, the probes, the content scan;
\* logged_in is set by a structural probe or by the content scan
V_Check ==
    /\ pc = "v_check"
    /\ \/ \E logged_in \in HomeVerdicts :
             /\ Unwind(IF logged_in THEN Valid ELSE Failure("invalid"),
                       "v_page_close")
             /\ Log(<<"goto:home">>)
       \/ /\ Unwind(Failure("invalid"), "v_page_close")
          /\ Log(<<"goto:home", "raise:check">>)
    /\ UNCHANGED <<op, calls, short_url, file, browser, pages, cookies, result,
                   loaded, page_content, html, processed, view, appVars>>

\* lines 217-219: finally: await page.close(); an exception is caught at
\* line 220
V_PageClose ==
    /\ pc = "v_page_close"
    /\ \/ /\ pages' = [pages EXCEPT !["home"] = "closed"]
          /\ Log(<<"close:home">>)
          /\ pc' = "v_browser_close"
          /\ UNCHANGED pending
       \/ /\ Unwind(Failure("invalid"), "v_browser_close")
          /\ Log(<<"raise:close:home">>)
          /\ UNCHANGED pages
    /\ UNCHANGED <<op, calls, short_url, file, browser, cookies, result, loaded,
                   page_content, html, processed, view, appVars>>

\* lines 229-232: finally: if 'browser' in locals(): await browser.close();
\* no handler encloses it
V_BrowserClose ==
    /\ pc = "v_browser_close"
    /\ IF browser = "none"
       THEN pc' = "v_exit" /\ UNCHANGED <<browser, pages, pending, events>>
       ELSE \/ /\ browser' = "closed"
               /\ pages' = ClosedWithBrowser(pages)
               /\ Log(<<"close:browser">>)
               /\ pc' = "v_exit"
               /\ UNCHANGED pending
            \/ /\ Unwind(Raised, "v_exit")
               /\ Log(<<"raise:close:browser">>)
               /\ UNCHANGED <<browser, pages>>
    /\ UNCHANGED <<op, calls, short_url, file, cookies, result, loaded,
                   page_content, html, processed, view, appVars>>

\* the end of the async with block, then the return
V_Exit ==
    /\ pc = "v_exit"
    /\ \/ Return(pending) /\ UNCHANGED events
       \/ Return(Raised) /\ Log(<<"raise:exit">>)
    /\ UNCHANGED <<op, calls, short_url, file, browser, pages, cookies,
                   loaded, page_content, html, processed, view, appVars>>

(***************************************************************************)
(* The server: tool calls, one after the other.                            *)
(***************************************************************************)
Init ==
    /\ op = "none"
    /\ AppIdle
    /\ pc = "idle"
    /\ calls = 0
    /\ short_url = NoArg
    /\ file \in InitialFiles
    /\ browser = "none"
    /\ pages = NoPages
    /\ cookies = <<>>
    /\ pending = NoResult
    /\ result = NoResult
    /\ events = <<>>
    /\ loaded = <<>>
    /\ page_content = <<>>
    /\ html = NoHtml
    /\ processed = NoProcessed
    /\ view = NoView

Next ==
    \/ Call
    \/ S_Validate \/ S_Playwright \/ S_Launch \/ S_NewContext \/ S_LoadCookies
    \/ S_LoginPage \/ S_Login \/ S_Save \/ S_LoginClose \/ S_ArticlePage
    \/ S_Goto \/ S_Settle \/ S_Content \/ S_Extract \/ S_ArticleClose
    \/ S_BrowserClose \/ S_Exit
    \/ V_File \/ V_Playwright \/ V_Launch \/ V_Context \/ V_Page \/ V_Check
    \/ V_PageClose \/ V_BrowserClose \/ V_Exit

Spec == Init /\ [][Next]_vars

(***************************************************************************)
(* _process_article_html applied to every markup of HtmlInputs.            *)
(***************************************************************************)
InitExtract ==
    /\ op = "extract"
    /\ AppIdle
    /\ pc = "x_call"
    /\ calls = 0
    /\ short_url = NoArg
    /\ file = NoFile
    /\ browser = "none"
    /\ pages = NoPages
    /\ cookies = <<>>
    /\ pending = NoResult
    /\ result = NoResult
    /\ events = <<>>
    /\ loaded = <<>>
    /\ page_content = <<>>
    /\ html \in HtmlInputs
    /\ processed = NoProcessed
    /\ view = NoView

X_Process ==
    /\ pc = "x_call"
    /\ LET r == process_article_html(html)
       IN  processed' = [done |-> TRUE, raised |-> r.raised, text |-> r.text,
                         images |-> r.images]
    /\ pc' = "x_done"
    /\ UNCHANGED <<op, calls, short_url, file, browser, pages, cookies, pending,
                   result, events, loaded, page_content, html, view, appVars>>

NextExtract == X_Process

SpecExtract == InitExtract /\ [][NextExtract]_vars

(***************************************************************************)
(* _scrape_medium_article applied to sampled article pages.  A page is     *)
(* what its reads yield: page.title() (a value or an exception),           *)
(* page.content() (readable or not), the candidates of article_selectors   *)
(* and the page body.                                                      *)
(***************************************************************************)
InitArticle ==
    /\ op = "article"
    /\ AppIdle
    /\ pc = "a_call"
    /\ calls = 0
    /\ short_url = StrArg(ArticleUrl)
    /\ file = NoFile
    /\ browser = "none"
    /\ pages = NoPages
    /\ cookies = <<>>
    /\ pending = NoResult
    /\ result = NoResult
    /\ events = <<>>
    /\ loaded = <<>>
    /\ page_content = <<>>
    /\ html = NoHtml
    /\ processed = NoProcessed
    /\ view \in
          [ title : { [raises |-> TRUE, value |-> <<>>] } \cup
                    { [raises |-> FALSE, value |-> t] :
                        t \in { <<>>, <<"T">>, MediumSuffix,
                                <<"T">> \o MediumSuffix,
                                <<"T">> \o MediumSuffix \o <<"s">>,
                                <<"T">> \o MediumSuffix \o <<" ","|"," ","B">>,
                                <<"T">> \o MediumSuffix \o MediumSuffix } },
            content_ok : BOOLEAN,
            chain : { [AllMissing EXCEPT ![1] = a, ![2] = b,
                                         ![NumArticleSelectors] = c] :
                        a, b, c \in { Missing, QueryError, Found(<<>>),
                                      Found(<<TextTok(<<Sp>>)>>),
                                      Found(ScenarioA) } },
            body : { Found(ScenarioB), Found(<<>>), QueryError } ]

\* lines 1151-1218: the title (1151-1153) and the length of the content
\* (1159) are read outside any try block; the candidates and the body are
\* read inside one
A_Scrape ==
    /\ pc = "a_call"
    /\ IF view.title.raises \/ ~view.content_ok
       THEN /\ result' = Raised
            /\ UNCHANGED <<html, processed>>
       ELSE LET article_html == ArticleHtml(view.chain, view.body)
                r == process_article_html(article_html)
            IN  /\ html' = article_html
                /\ processed' = [done |-> TRUE, raised |-> r.raised,
                                  text |-> r.text, images |-> r.images]
                /\ result' = Article(scrape_medium_article(
                                 view.title.value, view.chain, view.body,
                                 short_url.s))
    /\ pc' = "a_done"
    /\ UNCHANGED <<op, calls, short_url, file, browser, pages, cookies, pending,
                   events, loaded, page_content, view, appVars>>

NextArticle == A_Scrape

SpecArticle == InitArticle /\ [][NextArticle]_vars

(***************************************************************************)
(* The login check of validate_medium_cookies applied to sampled home      *)
(* pages.                                                                  *)
(***************************************************************************)
InitProbe ==
    /\ op = "probe"
    /\ AppIdle
    /\ pc = "p_call"
    /\ calls = 0
    /\ short_url = NoArg
    /\ file = NoFile
    /\ browser = "none"
    /\ pages = NoPages
    /\ cookies = <<>>
    /\ pending = NoResult
    /\ result = NoResult
    /\ events = <<>>
    /\ loaded = <<>>
    /\ page_content = <<>>
    /\ html = NoHtml
    /\ processed = NoProcessed
    /\ view \in HomeViews

\* lines 154-183 on the page view
P_Check ==
    /\ pc = "p_call"
    /\ result' = check_logged_in(view)
    /\ pc' = "p_done"
    /\ UNCHANGED <<op, calls, short_url, file, browser, pages, cookies, pending,
                   events, loaded, page_content, html, processed, view, appVars>>


(***************************************************************************)
(* The interactive login: _login_medium, one action per step.              *)
(***************************************************************************)
\* lines 579, 651, 717, 756, 808, 837, 889: locator(selector).count() > 0 and
\* locator(selector).first.is_visible() is "true", "false" or "raise"
CountAndFirstIsVisible(m) ==
    IF m.raises THEN "raise"
    ELSE IF Len(m.elems) = 0 THEN "false"
    ELSE IF m.elems[1] THEN "true" ELSE "false"

\* the selector loops of _login_medium: the index of the first selector of
\* probes, from i on, whose check is true, 0 when there is none; a check that
\* raises is skipped
RECURSIVE SelectorChain(_, _)
SelectorChain(probes, i) ==
    IF i > Len(probes) THEN 0
    ELSE IF CountAndFirstIsVisible(probes[i]) = "true" THEN i
    ELSE SelectorChain(probes, i + 1)

\* the selector lists of lines 566-571, 638-643, 704-709, 744-748, 796-800,
\* 825-829 and 874-881
signin_selectors ==
    << "a:has-text(\"Sign In\")", "a[href*=\"sign-in\"]",
       "a[href*=\"signin\"]", "button:has-text(\"Sign in\")" >>
email_option_selectors ==
    << "button:has-text(\"Sign in with email\")",
       "button[data-action=\"sign-in-with-email\"]",
       "button:has-text(\"Email\")", "a:has-text(\"sign in with email\")" >>
email_field_selectors ==
    << "input[type=\"email\"]", "input[name=\"email\"]",
       "input[id*=\"email\"]", "input[placeholder*=\"email\"]" >>
continue_button_selectors ==
    << "button:has-text(\"Continue\")", "button[type=\"submit\"]",
       "button.button--primary" >>
password_field_selectors ==
    << "input[type=\"password\"]", "input[name=\"password\"]",
       "input[id*=\"password\"]" >>
signin_button_selectors ==
    << "button:has-text(\"Sign in\")", "button[type=\"submit\"]",
       "button.button--primary" >>
auth_check_selectors ==
    << "button[aria-label=\"User\"]", "img.avatar", "a[href*=\"/@\"]",
       "a[href=\"/me\"]", "button:has-text(\"Write\")",
       "div[data-testid=\"user-menu\"]" >>

\* the value _login_medium returns
AuthResult(authenticated, error) ==
    [kind |-> "auth", authenticated |-> authenticated, error |-> error]

\* "verify" of line 928 and "captcha" of line 937
verify == <<"v","e","r","i","f","y">>
captcha == <<"c","a","p","t","c","h","a">>

\* the page the login check of lines 874-948 looks at: something is found
\* by at most MaxMatching selectors among the first, the fourth and the last
\* of auth_check_selectors
LoginViews ==
    { View(a, c, u) :
        a \in ProbeAssignments(Len(auth_check_selectors),
                               {1, 4, Len(auth_check_selectors)}, MaxMatching),
        c \in { <<>>, captcha, <<"r","e","C","A","P","T","C","H","A">> },
        u \in { <<"m","/">>, <<"m","/">> \o verify,
                <<"m","/","V","e","r","i","f","y","?">> } }

\* _login_medium returns
L_Return(authenticated, error) ==
    /\ result' = AuthResult(authenticated, error)
    /\ pc' = "l_done"

\* L_Except that returns no reason with the failure
L_Except_NoReason(es) ==
    /\ L_Return(FALSE, "None")
    /\ Log(es)

\* lines 950-963: an exception of the body is caught and its text returned
L_Except(es) ==
    /\ L_Return(FALSE, "str(e)")
    /\ Log(es)

\* a step of the flow: the selector loop over selectors; with no visible
\* candidate the diagnostics are captured (capture says whether that is an
\* awaited call outside a handler) and missing is returned; else the control
\* is clicked or filled (act) and the calls that follow it (each of after may
\* raise) are awaited
L_Step(selectors, missing, capture, act, after, next) ==
    \E found \in { SelectorChain(chain, 1) :
                      chain \in ProbeAssignments(Len(selectors),
                                                 1..Len(selectors),
                                                 MaxMatching) } :
        IF found = 0
        THEN \/ /\ L_Return(FALSE, missing)
                /\ Log(<<"missing:" \o act>>)
             \/ /\ capture
                /\ L_Except(<<"missing:" \o act, "raise:capture">>)
        ELSE \/ /\ Log(<<act>>)
                /\ pc' = next
                /\ UNCHANGED result
             \/ L_Except(<<"raise:" \o act>>)
             \/ \E e \in after : L_Except(<<act, e>>)

\* lines 553-563: page.goto("https://medium.com"), page.title(),
\* wait_for_load_state
L_Goto ==
    /\ pc = "l_goto"
    /\ \/ /\ Log(<<"goto:home">>)
          /\ pc' = "l_signin"
          /\ UNCHANGED result
       \/ L_Except(<<"raise:goto:home">>)
       \/ L_Except(<<"goto:home", "raise:wait">>)
    /\ UNCHANGED <<op, calls, short_url, file, browser, pages, cookies, pending,
                   loaded, page_content, html, processed, view, appVars>>

\* lines 566-627: the sign-in control; locator('button').all() of line 595
\* and the click and wait of lines 624-627 are outside the inner handlers
L_SignIn ==
    /\ pc = "l_signin"
    /\ L_Step(signin_selectors, "Sign In button not found on Medium homepage",
              TRUE, "click:signin",
              {"raise:wait"}, "l_email_option")
    /\ UNCHANGED <<op, calls, short_url, file, browser, pages, cookies, pending,
                   loaded, page_content, html, processed, view, appVars>>

\* lines 638-701: the email method; page.screenshot of line 663 is awaited
\* outside a handler
L_EmailOption ==
    /\ pc = "l_email_option"
    /\ L_Step(email_option_selectors, "Email sign-in option not found",
              TRUE, "click:email_option",
              {"raise:wait"}, "l_email_field")
    /\ UNCHANGED <<op, calls, short_url, file, browser, pages, cookies, pending,
                   loaded, page_content, html, processed, view, appVars>>

\* lines 704-741: the email field; on a missing field only _take_screenshot
\* runs, which never raises
L_EmailField ==
    /\ pc = "l_email_field"
    /\ L_Step(email_field_selectors, "Email input field not found",
              FALSE, "fill:email",
              {}, "l_continue")
    /\ UNCHANGED <<op, calls, short_url, file, browser, pages, cookies, pending,
                   loaded, page_content, html, processed, view, appVars>>

\* lines 744-793: the continue control; page.screenshot of lines 768 and 786
\* is awaited outside a handler
L_Continue ==
    /\ pc = "l_continue"
    /\ L_Step(continue_button_selectors, "Continue button not found",
              TRUE, "click:continue",
              {"raise:wait", "raise:capture"}, "l_password")
    /\ UNCHANGED <<op, calls, short_url, file, browser, pages, cookies, pending,
                   loaded, page_content, html, processed, view, appVars>>

\* L_Password that fills the password whatever the page shows
L_Password_AlwaysFills ==
    /\ pc = "l_password"
    /\ \E chain \in ProbeAssignments(Len(password_field_selectors),
                                    {1, Len(password_field_selectors)},
                                    MaxMatching) :
          /\ view' = View(chain, <<>>, <<>>)
          /\ \/ /\ Log(<<"fill:password">>)
                /\ pc' = "l_password_signin"
                /\ UNCHANGED result
             \/ L_Except(<<"raise:fill:password">>)
    /\ UNCHANGED <<op, calls, short_url, file, browser, pages, cookies, pending,
                   loaded, page_content, html, processed, appVars>>

\* lines 796-822 and 870: the password field, filled when one is visible;
\* view is the page the browser shows after continue was clicked
L_Password ==
    /\ pc = "l_password"
    /\ \E chain \in ProbeAssignments(Len(password_field_selectors),
                                    {1, Len(password_field_selectors)},
                                    MaxMatching) :
          /\ view' = View(chain, <<>>, <<>>)
          /\ IF SelectorChain(chain, 1) = 0
             THEN /\ Log(<<"no_password_field_found">>)
                  /\ pc' = "l_auth_check"
                  /\ UNCHANGED result
             ELSE \/ /\ Log(<<"fill:password">>)
                     /\ pc' = "l_password_signin"
                     /\ UNCHANGED result
                  \/ L_Except(<<"raise:fill:password">>)
    /\ UNCHANGED <<op, calls, short_url, file, browser, pages, cookies, pending,
                   loaded, page_content, html, processed, appVars>>

\* lines 825-868: the sign-in control of the password form; page.screenshot
\* of lines 849 and 868 is awaited outside a handler
L_PasswordSignIn ==
    /\ pc = "l_password_signin"
    /\ L_Step(signin_button_selectors,
              "Sign in button not found after password entry",
              TRUE, "click:password_signin",
              {"raise:wait", "raise:capture"}, "l_auth_check")
    /\ UNCHANGED <<op, calls, short_url, file, browser, pages, cookies, pending,
                   loaded, page_content, html, processed, view, appVars>>

\* lines 874-897: the selector loop of the login check on the page the
\* browser shows after the submission
L_AuthCheck ==
    /\ pc = "l_auth_check"
    /\ \E v \in LoginViews :
          /\ view' = v
          /\ IF SelectorChain(v.probes, 1) > 0
             THEN /\ Log(<<"auth_check:true">>)
                  /\ pc' = "l_success"
             ELSE /\ Log(<<"auth_check:false">>)
                  /\ pc' = "l_failed"
    /\ UNCHANGED <<op, calls, short_url, file, browser, pages, cookies, pending,
                   result, loaded, page_content, html, processed, appVars>>

\* lines 897-906: page.screenshot, then authenticated = True
L_Success ==
    /\ pc = "l_success"
    /\ \/ L_Return(TRUE, "None") /\ UNCHANGED events
       \/ L_Except(<<"raise:capture">>)
    /\ UNCHANGED <<op, calls, short_url, file, browser, pages, cookies, pending,
                   loaded, page_content, html, processed, view, appVars>>

\* L_Failed that starts the flow again, once, when the login check failed
L_Failed_Retries ==
    /\ pc = "l_failed"
    /\ IF \A i \in 1..Len(events) : events[i] # "retry"
       THEN /\ Log(<<"retry">>)
            /\ pc' = "l_goto"
            /\ UNCHANGED result
       ELSE /\ L_Return(FALSE, "Could not verify successful login.")
            /\ UNCHANGED events
    /\ UNCHANGED <<op, calls, short_url, file, browser, pages, cookies, pending,
                   loaded, page_content, html, processed, view, appVars>>

\* lines 907-948: page.screenshot, then the tests of page.url and of
\* page.content()
L_Failed ==
    /\ pc = "l_failed"
    /\ \/ L_Except(<<"raise:capture">>)
       \/ /\ Contains(Lower(view.url), verify)
          /\ L_Return(FALSE, "Two-factor authentication required. "
                                 \o "Manual login needed.")
          /\ UNCHANGED events
       \/ /\ ~Contains(Lower(view.url), verify)
          /\ \/ L_Except(<<"raise:content">>)
             \/ /\ L_Return(FALSE,
                            IF Contains(Lower(view.content), captcha)
                            THEN "CAPTCHA detected. Manual login required."
                            ELSE "Could not verify successful login.")
                /\ Log(<<"content">>)
    /\ UNCHANGED <<op, calls, short_url, file, browser, pages, cookies, pending,
                   loaded, page_content, html, processed, view, appVars>>

InitLogin ==
    /\ op = "login"
    /\ AppIdle
    /\ pc = "l_goto"
    /\ calls = 0
    /\ short_url = NoArg
    /\ file = NoFile
    /\ browser = "open"
    /\ pages = [NoPages EXCEPT !["login"] = "open"]
    /\ cookies = <<>>
    /\ pending = NoResult
    /\ result = NoResult
    /\ events = <<>>
    /\ loaded = <<>>
    /\ page_content = <<>>
    /\ html = NoHtml
    /\ processed = NoProcessed
    /\ view = NoView

NextLogin ==
    \/ L_Goto \/ L_SignIn \/ L_EmailOption \/ L_EmailField \/ L_Continue
    \/ L_Password \/ L_PasswordSignIn \/ L_AuthCheck \/ L_Success \/ L_Failed

SpecLogin == InitLogin /\ [][NextLogin]_vars

\* lines 874-895 on the page view, after the validator's check of the same
\* page: each selector of auth_check_selectors finds what the same selector
\* finds for the validator
P_AuthCheck ==
    /\ pc = "p_done"
    /\ LET at(sel) == CHOOSE i \in 1..Len(auth_indicators) :
                          auth_indicators[i] = sel
           probes == [k \in 1..Len(auth_check_selectors) |->
                         view.probes[at(auth_check_selectors[k])]]
       IN  pending' = AuthResult(SelectorChain(probes, 1) > 0, "None")
    /\ pc' = "p_compared"
    /\ UNCHANGED <<op, calls, short_url, file, browser, pages, cookies, result,
                   events, loaded, page_content, html, processed, view, appVars>>

NextProbe == P_Check \/ P_AuthCheck

SpecProbe == InitProbe /\ [][NextProbe]_vars

\* _login_medium is one coroutine that its caller awaits: a step that can
\* be taken is taken, every awaited Playwright call returning or raising
\* within its timeout
SpecLoginFair == SpecLogin /\ WF_vars(NextLogin)

(***************************************************************************)
(* One scrape call whose caller gives up waiting: tool_calling_claude of   *)
(* app.py wraps session.call_tool in asyncio.wait_for.                     *)
(***************************************************************************)
InitAbandon ==
    /\ op = "scrape"
    /\ AppIdle
    /\ pc = "s_validate"
    /\ calls = 1
    /\ short_url = StrArg(ArticleUrl)
    /\ file \in InitialFiles
    /\ browser = "none"
    /\ pages = NoPages
    /\ cookies = <<>>
    /\ pending = NoResult
    /\ result = NoResult
    /\ events = <<>>
    /\ loaded = <<>>
    /\ page_content = <<>>
    /\ html = NoHtml
    /\ processed = NoProcessed
    /\ view = NoView

\* app.py lines 99-102 and 118-120: the timeout of wait_for ends the caller's
\* wait while the scrape is suspended in the login, the navigation or the
\* wait after it.  The server either is not told and goes on, or has the
\* task of the call cancelled: CancelledError is raised at the suspension
\* point, passes the handlers for Exception and runs the finally blocks
S_Abandon ==
    /\ pc \in {"s_login", "s_goto", "s_settle"}
    /\ \A i \in 1..Len(events) : events[i] # "abandoned"
    /\ \/ /\ Log(<<"abandoned">>)
          /\ UNCHANGED <<pc, pending>>
       \/ /\ Log(<<"abandoned", "cancelled">>)
          /\ Unwind(Raised, IF pc = "s_login" THEN "s_login_close"
                                              ELSE "s_article_close")
    /\ UNCHANGED <<op, calls, short_url, file, browser, pages, cookies, result,
                   loaded, page_content, html, processed, view, appVars>>

\* the steps of the scrape call but the extraction
ScrapeSteps ==
    \/ S_Validate \/ S_Playwright \/ S_Launch \/ S_NewContext \/ S_LoadCookies
    \/ S_LoginPage \/ S_Login \/ S_Save \/ S_LoginClose \/ S_ArticlePage
    \/ S_Goto \/ S_Settle \/ S_Content
    \/ S_ArticleClose \/ S_BrowserClose \/ S_Exit

NextAbandon == ScrapeSteps \/ S_Extract \/ S_Abandon

\* the event loop of the server runs the call: a step that can be taken is
\* taken, every awaited call returning or raising within its timeout.  The
\* extraction can return and can raise in the same states, so fairness of
\* either of the two says that it ends
SpecAbandon ==
    /\ InitAbandon /\ [][NextAbandon]_vars
    /\ WF_vars(ScrapeSteps) /\ WF_vars(S_ExtractRaises)

(***************************************************************************)
(* The calls that return a flag with a reason: the tool calls of the       *)
(* server and runs of _login_medium.                                       *)
(***************************************************************************)
InitResults == Init \/ InitLogin

NextResults == Next \/ NextLogin

SpecResults == InitResults /\ [][NextResults]_vars

(***************************************************************************)
(* _save_cookies and _load_cookies applied to every state of the session   *)
(* file and of its directory.                                              *)
(***************************************************************************)
\* where MEDIUM_COOKIES_FILE may point: any file of InitialFiles under a path
\* without a directory part or in a directory that exists, or no file in a
\* directory that does not exist yet
StoreFiles ==
    InitialFiles
        \cup { InDir(f, "present") : f \in InitialFiles }
        \cup { InDir(NoFile, "missing") }

\* the cookies a browsing context may hold when _save_cookies is called
ContextCookies ==
    { <<>>, LiveSession, StaleSession, StaleSession \o LiveSession }

\* what a call of the store returned
StoreResult(kind, ok) == [kind |-> kind, ok |-> ok]

InitStore ==
    /\ op = "store"
    /\ AppIdle
    /\ pc = "st_idle"
    /\ calls = 0
    /\ short_url = NoArg
    /\ file \in StoreFiles
    /\ browser = "none"
    /\ pages = NoPages
    /\ cookies \in ContextCookies
    /\ pending = NoResult
    /\ result = NoResult
    /\ events = <<>>
    /\ loaded = <<>>
    /\ page_content = <<>>
    /\ html = NoHtml
    /\ processed = NoProcessed
    /\ view = NoView

\* a browsing context whose cookies come from a login (lines 326, 347)
St_Context ==
    /\ cookies' \in ContextCookies
    /\ result' = NoResult
    /\ events' = <<>>
    /\ UNCHANGED <<op, pc, calls, short_url, file, browser, pages, pending,
                   loaded, page_content, html, processed, view, appVars>>

\* _save_cookies(context)
St_Save ==
    /\ \E outcome \in SaveOutcomes :
          LET r == save_cookies(file, cookies, outcome)
          IN  /\ file' = r.file
              /\ events' = r.events
              /\ result' = StoreResult("save", r.ok)
    /\ UNCHANGED <<op, pc, calls, short_url, browser, pages, cookies, pending,
                   loaded, page_content, html, processed, view, appVars>>

\* _load_cookies(context) on a new browsing context (lines 326, 332)
St_Load ==
    /\ \E addOk \in BOOLEAN :
          LET r == load_cookies(file, <<>>, addOk)
          IN  /\ cookies' = r.cookies
              /\ events' = r.events
              /\ result' = StoreResult("load", r.ok)
    /\ UNCHANGED <<op, pc, calls, short_url, file, browser, pages, pending,
                   loaded, page_content, html, processed, view, appVars>>

NextStore == St_Context \/ St_Save \/ St_Load

SpecStore == InitStore /\ [][NextStore]_vars

(***************************************************************************)
(* The client: claude_conversation of app.py, one action per step of its   *)
(* loop.                                                                   *)
(***************************************************************************)
\* the largest arguments of a call and the most tool_use blocks of a response
MaxIterationsArg == 3
MaxLengthArg == 2
MaxBlocks == 2

\* lines 183-185, 251-271: the messages of the history; a tool_use block
\* carries the id the model gave it, a tool_result the id it answers
UserPrompt ==
    [role |-> "user", type |-> "text", id |-> <<>>, is_error |-> FALSE]
ToolUse(id) ==
    [role |-> "assistant", type |-> "tool_use", id |-> id, is_error |-> FALSE]
ToolResult(id, is_error) ==
    [role |-> "user", type |-> "tool_result", id |-> id, is_error |-> is_error]

\* what a tool request comes to: a result without "error", a dictionary with
\* "error" (tool failure, timeout, empty or non-JSON response, lines 104-122),
\* a tool that is not listed (line 230), or JSON that is no container, on
\* which '"error" in tool_result' (line 244) raises TypeError
ToolOutcomes == {"ok", "error", "unknown", "scalar"}

Answer == <<"o","k">>
ErrorOccurred == <<"E","r","r","o","r">>

\* client.messages.create: it raises, or answers with no content, with a
\* final text, or with stop_reason "tool_use" and some tool_use blocks
Responses ==
    { [kind |-> k, text |-> <<>>, blocks |-> <<>>] : k \in {"raises", "empty"} }
    \cup { [kind |-> "final", text |-> t, blocks |-> <<>>] : t \in {<<>>, Answer} }
    \cup { [kind |-> "tool_use", text |-> <<>>, blocks |-> b] :
             b \in StringsUpTo(ToolOutcomes, MaxBlocks) }

\* lines 224-271: the loop over tool_blocks from block j on, in iteration n:
\* the history it leaves and whether it raised
RECURSIVE ToolBlocks(_, _, _, _)
ToolBlocks(conv, blocks, n, j) ==
    IF j > Len(blocks) THEN [raised |-> FALSE, conversation |-> conv]
    ELSE IF blocks[j] = "scalar" THEN [raised |-> TRUE, conversation |-> conv]
    ELSE ToolBlocks(conv \o << ToolUse(<<n, j>>),
                               ToolResult(<<n, j>>, blocks[j] # "ok") >>,
                    blocks, n, j + 1)

\* line 277: conversation[-n:] of Python
LastMessages(conv, n) ==
    IF n = 0 \/ n >= Len(conv) THEN conv
    ELSE SubSeq(conv, Len(conv) - n + 1, Len(conv))

\* lines 274-277
Trim(conv) ==
    IF Len(conv) > max_conversation_length * 2
    THEN LastMessages(conv, max_conversation_length * 2)
    ELSE conv

\* lines 183-188: the history holds the prompt of the user
InitConversation ==
    /\ op = "conversation"
    /\ pc = "c_while"
    /\ calls = 0
    /\ short_url = NoArg
    /\ file = NoFile
    /\ browser = "none"
    /\ pages = NoPages
    /\ cookies = <<>>
    /\ pending = NoResult
    /\ result = NoResult
    /\ events = <<>>
    /\ loaded = <<>>
    /\ page_content = <<>>
    /\ html = NoHtml
    /\ processed = NoProcessed
    /\ view = NoView
    /\ conversation = <<UserPrompt>>
    /\ iteration_count = 0
    /\ final_response = <<>>
    /\ max_iterations \in 0..MaxIterationsArg
    /\ max_conversation_length \in 1..MaxLengthArg
    /\ email_body = <<>>
    /\ articles = <<>>

\* C_While with one iteration more: iteration_count <= max_iterations
C_While_OneMore ==
    /\ pc = "c_while"
    /\ IF iteration_count <= max_iterations
       THEN iteration_count' = iteration_count + 1 /\ pc' = "c_request"
       ELSE pc' = "c_return" /\ UNCHANGED iteration_count
    /\ UNCHANGED <<op, calls, short_url, file, browser, pages, cookies, pending,
                   result, events, loaded, page_content, html, processed, view,
                   conversation, final_response, max_iterations,
                   max_conversation_length, email_body, articles>>

\* lines 190-191: the loop test and the count
C_While ==
    /\ pc = "c_while"
    /\ IF iteration_count < max_iterations
       THEN iteration_count' = iteration_count + 1 /\ pc' = "c_request"
       ELSE pc' = "c_return" /\ UNCHANGED iteration_count
    /\ UNCHANGED <<op, calls, short_url, file, browser, pages, cookies, pending,
                   result, events, loaded, page_content, html, processed, view,
                   conversation, final_response, max_iterations,
                   max_conversation_length, email_body, articles>>

\* lines 195-290: one request to the model and what the loop does with the
\* response
C_Request ==
    /\ pc = "c_request"
    /\ Log(<<"request">>)
    /\ \E response \in Responses :
          CASE response.kind = "raises" ->
                  /\ final_response' = ErrorOccurred
                  /\ pc' = "c_return"
                  /\ UNCHANGED conversation
            [] response.kind = "empty" ->
                  /\ pc' = "c_return"
                  /\ UNCHANGED <<conversation, final_response>>
            [] response.kind = "final" ->
                  /\ final_response' = response.text
                  /\ pc' = "c_return"
                  /\ UNCHANGED conversation
            [] response.kind = "tool_use" ->
                  IF response.blocks = <<>>
                  THEN /\ pc' = "c_return"
                       /\ UNCHANGED <<conversation, final_response>>
                  ELSE LET r == ToolBlocks(conversation, response.blocks,
                                           iteration_count, 1)
                       IN  IF r.raised
                           THEN /\ conversation' = r.conversation
                                /\ final_response' = ErrorOccurred
                                /\ pc' = "c_return"
                           ELSE /\ conversation' = Trim(r.conversation)
                                /\ pc' = "c_while"
                                /\ UNCHANGED final_response
    /\ UNCHANGED <<op, calls, short_url, file, browser, pages, cookies, pending,
                   result, loaded, page_content, html, processed, view,
                   iteration_count, max_iterations, max_conversation_length,
                   email_body, articles>>

\* lines 292-295: return final_response
C_Return ==
    /\ pc = "c_return"
    /\ result' = [NoResult EXCEPT !.kind = "response", !.text = final_response]
    /\ pc' = "c_returned"
    /\ UNCHANGED <<op, calls, short_url, file, browser, pages, cookies, pending,
                   events, loaded, page_content, html, processed, view, appVars>>

NextConversation == C_While \/ C_Request \/ C_Return

SpecConversation == InitConversation /\ [][NextConversation]_vars

\* the event loop runs the coroutine whenever it can go on: the request to
\* the model and every tool call come back or time out
SpecConversationFair == SpecConversation /\ WF_vars(NextConversation)

(***************************************************************************)
(* The mail server: extract_medium_articles and _get_short_url of          *)
(* gmail.py, and the scrape call the client makes with a Link they gave.   *)
(***************************************************************************)
\* what _get_short_url returns: the error dictionary or a string
ShortUrlError == [error |-> TRUE, url |-> <<>>]
ShortUrl(u) == [error |-> FALSE, url |-> u]

\* urlunparse((scheme, netloc, path, '', '', '')) of urllib.parse
urlunparse(scheme, netloc, path) ==
    LET rooted == IF path # <<>> /\ path[1] # "/" THEN <<"/">> \o path ELSE path
        url == IF netloc # <<>> THEN <<"/", "/">> \o netloc \o rooted ELSE path
    IN  IF scheme # <<>> THEN scheme \o <<":">> \o url ELSE url

\* schemes whose last path segment may carry ";parameters" (uses_params of
\* urllib.parse), those of web links among them
uses_params == { <<>>, <<"h","t","t","p">>, <<"h","t","t","p","s">>,
                 <<"f","t","p">> }

\* _splitparams of urllib.parse: the path without the parameters of its
\* last segment
splitparams(url) ==
    LET slashes == { k \in 1..Len(url) : url[k] = "/" }
        from == IF slashes = {} THEN 1
                ELSE CHOOSE k \in slashes : \A j \in slashes : j <= k
        semis == { k \in from..Len(url) : url[k] = ";" }
    IN  IF semis = {} THEN url
        ELSE SubSeq(url, 1, (CHOOSE k \in semis : \A j \in semis : k <= j) - 1)

\* the first position of s from i on that holds a character of cs, Len(s) + 1
\* when there is none
RECURSIVE FindFirst(_, _, _)
FindFirst(s, i, cs) ==
    IF i > Len(s) \/ s[i] \in cs THEN i ELSE FindFirst(s, i + 1, cs)

\* parts.path of urlparse for a url with a scheme and a netloc: what follows
\* them up to the query or the fragment, without the parameters
PathFrom(url, scheme, start) ==
    IF scheme \in uses_params
    THEN splitparams(SubSeq(url, start, FindFirst(url, start, {"?", "#"}) - 1))
    ELSE SubSeq(url, start, FindFirst(url, start, {"?", "#"}) - 1)

\* line 514 on the parts of the url
ShortUrlOf(url, parts) ==
    ShortUrl(urlunparse(parts.scheme, parts.netloc,
                        PathFrom(url, parts.scheme,
                                 Len(parts.scheme) + Len(parts.netloc) + 4)))

\* lines 508-514 with a test for a host only: if not parts.netloc
CheckParts_NetlocOnly(url, parts) ==
    IF parts.raises THEN ShortUrlError
    ELSE IF parts.netloc = <<>> THEN ShortUrlError
    ELSE IF parts.scheme = <<>>
    THEN ShortUrl(urlunparse(<<>>, parts.netloc,
                             PathFrom(url, <<>>, Len(parts.netloc) + 3)))
    ELSE ShortUrlOf(url, parts)

\* lines 508-517: the parts of the url, checked and put together again
CheckParts(url, parts) ==
    IF parts.raises THEN ShortUrlError
    ELSE IF parts.scheme = <<>> \/ parts.netloc = <<>> THEN ShortUrlError
    ELSE ShortUrlOf(url, parts)

\* lines 504-517: _get_short_url on a string
get_short_url(url) ==
    IF url = <<>> THEN ShortUrlError
    ELSE CheckParts(LStripStr(url), urlparse(url))

\* an entry of the dictionary 'article' that may not be there
Unset == [set |-> FALSE, v |-> <<>>]
Set(v) == [set |-> TRUE, v |-> v]

Unknown == <<"U","n","k","n","o","w","n">>

\* what the searches of lines 273-310 find in one section of the mail: an
\* element that may be missing and its stripped text or its href
NoElem == [found |-> FALSE, v |-> <<>>]
Elem(v) == [found |-> TRUE, v |-> v]
\* a span of class 'aw': whether it holds a link, whether it holds a span of
\* class 'in', and the stripped text of the link
AuthorSpan(a, in, text) == [a |-> a, in |-> in, text |-> text]

\* lines 286-291: the first span with a link and without an 'in' span
RECURSIVE AuthorSpanLoop(_, _)
AuthorSpanLoop(spans, i) ==
    IF i > Len(spans) THEN Unset
    ELSE IF spans[i].a /\ ~spans[i].in THEN Set(spans[i].text)
    ELSE AuthorSpanLoop(spans, i + 1)

\* lines 299-300, 309-310: url_result is kept unless it is the error
\* dictionary
AsLink(found, url_result) ==
    IF found /\ ~url_result.error THEN Set(url_result.url) ELSE Unset

\* lines 295-310: the Link of a found href
LinkOf(elem) == AsLink(elem.found, get_short_url(elem.v))

\* line 286, 303: the second strategy runs when the first one set nothing
FirstSet(first, second) == IF first.set THEN first ELSE second

\* lines 313-318: the article, kept when it has a name and a Link
KeptArticle(name, link, author) ==
    [keep |-> name.v # <<>> /\ link.v # <<>>,
     article |-> [Name |-> name.v, Link |-> link.v,
                  Author |-> IF author.set THEN author.v ELSE Unknown]]

\* lines 269-318: the body of the loop over article_sections
ExtractSection(section) ==
    KeptArticle(
        IF section.h2.found THEN Set(section.h2.v) ELSE Unset,
        FirstSet(IF section.h2.found THEN LinkOf(section.title_link) ELSE Unset,
                 LinkOf(section.content_link)),
        FirstSet(IF section.author_link.found
                 THEN Set(section.author_link.v) ELSE Unset,
                 AuthorSpanLoop(section.author_spans, 1)))

\* SectionLoop on the outcome r of section i
KeepIf(r, found) == IF r.keep THEN Append(found, r.article) ELSE found

\* lines 267-318: the loop over article_sections
RECURSIVE SectionLoop(_, _, _)
SectionLoop(sections, i, found) ==
    IF i > Len(sections) THEN found
    ELSE SectionLoop(sections, i + 1, KeepIf(ExtractSection(sections[i]), found))

\* lines 256-326: the articles of the array extract_medium_articles returns
extract_medium_articles(body) ==
    IF body.raises THEN <<>>
    ELSE IF ~body.digest THEN <<>>
    ELSE SectionLoop(body.sections, 1, <<>>)

\* hrefs of the links of a mail, put together from their parts
HttpUrl == <<"h","t","t","p",":","/","/","m","/","a">>
Hrefs ==
    { lead \o scheme \o slashes \o netloc \o path \o query \o fragment :
        lead \in {<<>>, <<" ">>},
        scheme \in {<<>>, <<"h","t","t","p",":">>, <<"H","T","T","P",":">>,
                    <<"h",":">>},
        slashes \in {<<>>, <<"/","/">>},
        netloc \in {<<>>, <<"m">>, <<"[">>, <<"[",":",":","1","]">>},
        path \in {<<>>, <<"/","a">>, <<"/","a",";","p">>, <<"/","/","a">>,
                  <<"/","a",";","p","/","b">>},
        query \in {<<>>, <<"?","q">>},
        fragment \in {<<>>, <<"#","f">>} }

\* a section with a title, a link around it and an author
PlainSection ==
    [h2 |-> Elem(<<"T">>), title_link |-> Elem(HttpUrl),
     author_link |-> Elem(<<"A">>), author_spans |-> <<>>,
     content_link |-> NoElem]

Sections ==
    [h2 : {NoElem, Elem(<<>>), Elem(<<"T">>)},
     title_link : {NoElem, Elem(HttpUrl), Elem(NotAUrl)},
     author_link : {NoElem, Elem(<<>>), Elem(<<"A">>)},
     author_spans : { <<>>, <<AuthorSpan(TRUE, FALSE, <<"B">>)>>,
                      <<AuthorSpan(TRUE, TRUE, <<"C">>),
                        AuthorSpan(FALSE, FALSE, <<>>),
                        AuthorSpan(TRUE, FALSE, <<"B">>)>> },
     content_link : {NoElem, Elem(HttpUrl \o <<"?","q">>), Elem(<<"/","a">>)}]
    \cup { [PlainSection EXCEPT !.title_link = Elem(h)] : h \in Hrefs }
    \cup { [PlainSection EXCEPT !.title_link = NoElem, !.content_link = Elem(h)] :
             h \in Hrefs }

\* the mail: whether reading it raises (BeautifulSoup, a search), whether it
\* holds one of the two digest phrases, and its sections of class 'cd'
Mail(raises, digest, sections) ==
    [raises |-> raises, digest |-> digest, sections |-> sections]

EmailBodies ==
    { Mail(FALSE, TRUE, <<>>), Mail(FALSE, FALSE, <<>>) }
    \cup { Mail(raises, digest, <<s>>) :
             raises \in BOOLEAN, digest \in BOOLEAN, s \in Sections }
    \cup { Mail(FALSE, TRUE, <<s, PlainSection>>) : s \in Sections }
    \cup { Mail(FALSE, TRUE, <<PlainSection, s>>) : s \in Sections }

InitDigest ==
    /\ op = "extract_medium_articles"
    /\ pc = "g_call"
    /\ calls = 0
    /\ short_url = NoArg
    /\ file = NoFile
    /\ browser = "none"
    /\ pages = NoPages
    /\ cookies = <<>>
    /\ pending = NoResult
    /\ result = NoResult
    /\ events = <<>>
    /\ loaded = <<>>
    /\ page_content = <<>>
    /\ html = NoHtml
    /\ processed = NoProcessed
    /\ view = NoView
    /\ conversation = <<>>
    /\ iteration_count = 0
    /\ final_response = <<>>
    /\ max_iterations = 0
    /\ max_conversation_length = 0
    /\ email_body \in EmailBodies
    /\ articles = <<>>

\* lines 256-326: extract_medium_articles(email_body)
G_Extract ==
    /\ pc = "g_call"
    /\ articles' = extract_medium_articles(email_body)
    /\ pc' = "g_done"
    /\ UNCHANGED <<op, calls, short_url, file, browser, pages, cookies, pending,
                   result, events, loaded, page_content, html, processed, view,
                   conversation, iteration_count, final_response,
                   max_iterations, max_conversation_length, email_body>>

\* app.py lines 439-451: the client hands the Link of an article of the
\* array to scrape (the first one there, any of them here)
G_Scrape ==
    /\ pc = "g_done"
    /\ \E i \in 1..Len(articles) : short_url' = StrArg(articles[i].Link)
    /\ op' = "scrape"
    /\ calls' = calls + 1
    /\ pc' = "s_validate"
    /\ UNCHANGED <<file, browser, pages, cookies, pending, result, events,
                   loaded, page_content, html, processed, view, appVars>>

NextDigest == G_Extract \/ G_Scrape \/ S_Validate

SpecDigest == InitDigest /\ [][NextDigest]_vars

(***************************************************************************)
(* Properties.                                                             *)
(***************************************************************************)
InEvents(e) == \E i \in 1..Len(events) : events[i] = e

\* the call of tool t has returned
Returned(t) == op = t /\ pc = "idle"

Range(q) == { q[i] : i \in 1..Len(q) }
Count(q, x) == Cardinality({ i \in 1..Len(q) : q[i] = x })

\* C1: a url that is not a string, is empty, or parses with an empty scheme
\* or an empty host makes scrape return the invalid-input failure, and
\* the call launches no browser, reads no session file and navigates
\* nowhere: it does nothing at all besides the check.
C1_InvalidUrl(a) ==
    \/ ~a.isStr
    \/ a.s = <<>>
    \/ /\ ~urlparse(a.s).raises
       /\ urlparse(a.s).scheme = <<>> \/ urlparse(a.s).netloc = <<>>

C1_InvalidInput ==
    (op = "scrape" /\ C1_InvalidUrl(short_url)) =>
        /\ pc \in {"s_validate", "idle"}
        /\ events = <<>>
        /\ browser = "none"
        /\ pages = NoPages
        /\ pc = "idle" => result = Failure("invalidInput")

C1_Witness ==
    /\ Returned("scrape")
    /\ short_url = StrArg(NotAUrl)
    /\ result = Failure("invalidInput")
    /\ events = <<>>

\* C2: scrape navigates to the article only after the Interactive
\* Authenticator has run, unless the session it loaded is one the site
\* accepts: a loaded session that is stale never reaches the article
\* navigation without a login attempt before it.
C2_ReloginBeforeArticle ==
    (op = "scrape" /\ InEvents("goto:article")) =>
        \/ InEvents("login")
        \/ InEvents("add_cookies") /\ SignedIn(cookies)

\* C3: scrape never returns a success-shaped result whose title and body
\* text are both empty; that case is an extractionFailed failure.
C3_EmptyExtractionFails ==
    (Returned("scrape") /\ result.kind = "article") =>
        ~(result.Name = <<>> /\ result.text = <<>>)

\* C4 as claimed, with the phrase "join": content holding one of the phrases
\* gives paywallOrLoginRedirect and no extraction, and the extractor runs
\* only on content holding none of them.
C4_HasPhrase(content, phrases) ==
    \E phrase \in phrases : Contains(Lower(content), phrase)

C4_ClaimedPhrases ==
    { <<"s","i","g","n"," ","i","n">>,
      <<"b","e","c","o","m","e"," ","a"," ","m","e","m","b","e","r">>,
      <<"j","o","i","n">> }

C4_PaywallGate_Claimed ==
    (op = "scrape" /\ InEvents("content")) =>
        IF C4_HasPhrase(page_content, C4_ClaimedPhrases)
        THEN /\ ~InEvents("extract")
             /\ pc = "idle" => result = Failure("paywallOrLoginRedirect")
        ELSE TRUE

\* a failure of closing a page, closing the browser or leaving the driver
\* block replaced the value the call was about to return
C_CloseFailureReturned(page) ==
    \/ result = Failure("automationError") /\ InEvents("raise:close:" \o page)
    \/ /\ result = Failure("unexpectedError")
       /\ InEvents("raise:close:browser") \/ InEvents("raise:exit")

\* C4: if the rendered article content contains, case-insensitively, "sign
\* in", "become a member" or "join medium", the Content Extractor is not
\* invoked in that run and scrape returns paywallOrLoginRedirect, unless
\* closing the article page, closing the browser or leaving the driver block
\* raises, which returns automationError or unexpectedError instead; the
\* Content Extractor is invoked only when none of these phrases occurs.
C4_Phrases ==
    { <<"s","i","g","n"," ","i","n">>,
      <<"b","e","c","o","m","e"," ","a"," ","m","e","m","b","e","r">>,
      <<"j","o","i","n"," ","m","e","d","i","u","m">> }

C4_PaywallGate ==
    /\ (op = "scrape" /\ InEvents("content")
           /\ C4_HasPhrase(page_content, C4_Phrases)) =>
           /\ ~InEvents("extract")
           /\ pc = "idle" => \/ result = Failure("paywallOrLoginRedirect")
                             \/ C_CloseFailureReturned("article")
    /\ (op = "scrape" /\ InEvents("extract")) =>
           /\ InEvents("content")
           /\ ~C4_HasPhrase(page_content, C4_Phrases)

C4_Witness ==
    /\ Returned("scrape")
    /\ InEvents("content")
    /\ page_content = <<"S","i","g","n"," ","I","n">>
    /\ result = Failure("paywallOrLoginRedirect")
    /\ ~InEvents("extract")

\* the login ended with authenticated=false, which is also how an exception
\* raised inside the login flow ends
C5_LoginFailed == InEvents("login:failed")

\* C5 as claimed: a login that ends with authenticated=false, or raises,
\* makes scrape return authenticationFailed, with no navigation to the
\* article and no write of the session file.
C5_AuthFailure_Claimed ==
    (op = "scrape" /\ C5_LoginFailed) =>
        /\ ~InEvents("goto:article")
        /\ ~InEvents("file_write")
        /\ pc = "idle" => result = Failure("authenticationFailed")

\* C5: when the Interactive Authenticator run inside scrape ends with
\* authenticated=false (or raises), the article URL is never navigated to
\* in that run, the session file is not written, and scrape returns
\* authenticationFailed, unless closing the login page, closing the browser
\* or leaving the driver block raises, which returns automationError or
\* unexpectedError instead.
C5_AuthFailure ==
    (op = "scrape" /\ C5_LoginFailed) =>
        /\ ~InEvents("goto:article")
        /\ ~InEvents("new_page:article")
        /\ ~InEvents("file_write")
        /\ ~InEvents("save")
        /\ pc = "idle" => \/ result = Failure("authenticationFailed")
                          \/ C_CloseFailureReturned("login")

C5_Witness ==
    /\ Returned("scrape")
    /\ InEvents("login:failed")
    /\ result = Failure("authenticationFailed")
    /\ pages["login"] = "closed"

C7_NoExceptionEscapes ==
    Returned("scrape") =>
        /\ result.kind # "raised"
        /\ result.kind = "article" \/ result.error

C7_Witness ==
    /\ Returned("scrape")
    /\ InEvents("raise:close:article")
    /\ InEvents("raise:close:browser")
    /\ InEvents("raise:exit")
    /\ result = Failure("unexpectedError")

\* C8: bodyText is the document-order linearization of the container: its
\* words and markers, the separators left out, are exactly the words of the
\* source text and the markers [IMG: src] of the content images, in source
\* order, so text before (after) an image stays before (after) its marker
\* and the markers keep the order of their images.
C8_IsContentImage(toks, i) ==
    /\ toks[i].k = "img"
    /\ toks[i].hasSrc /\ toks[i].src # <<>>
    /\ is_article_image(toks, i)

C8_NotSp(a) == a # Sp

RECURSIVE C8_SourceItems(_, _)
C8_SourceItems(toks, i) ==
    IF i > Len(toks) THEN <<>>
    ELSE (IF toks[i].k = "text" THEN SelectSeq(toks[i].s, C8_NotSp)
          ELSE IF C8_IsContentImage(toks, i)
               THEN <<Placeholder(toks[i].src)>>
               ELSE <<>>) \o C8_SourceItems(toks, i + 1)

C8_OrderPreserved ==
    pc = "x_done" =>
        SelectSeq(processed.text, C8_NotSp) = C8_SourceItems(html.toks, 1)

C8_Witness ==
    /\ pc = "x_done"
    /\ html = Html(ScenarioA)
    /\ processed.text = <<Hello, Sp, Placeholder(CdnSrc), Sp, World>>
    /\ processed.images = <<CdnSrc>>

\* C9 as claimed: an image element classified decorative, with URL u, has
\* no marker in bodyText and u is not in the images list.
C9_IsDecorative(toks, i) ==
    /\ toks[i].k = "img"
    /\ toks[i].hasSrc /\ toks[i].src # <<>>
    /\ ~is_article_image(toks, i)

C9_DecorativeDropped_Claimed ==
    pc = "x_done" =>
        \A i \in 1..Len(html.toks) :
            C9_IsDecorative(html.toks, i) =>
                /\ Placeholder(html.toks[i].src) \notin Range(processed.text)
                /\ html.toks[i].src \notin Range(processed.images)

\* C9: an image element classified decorative, with URL u, contributes no
\* marker and no list entry: bodyText holds a marker for u, and the images
\* list holds u, exactly once for each image element with URL u that is
\* classified content, so both are absent unless another element with the
\* same URL is classified content.
C9_ContentCount(toks, u) ==
    Cardinality({ j \in 1..Len(toks) :
                      C8_IsContentImage(toks, j) /\ toks[j].src = u })

C9_DecorativeDropped ==
    pc = "x_done" =>
        \A i \in 1..Len(html.toks) :
            C9_IsDecorative(html.toks, i) =>
                LET u == html.toks[i].src
                IN  /\ Count(processed.text, Placeholder(u))
                           = C9_ContentCount(html.toks, u)
                    /\ Count(processed.images, u)
                           = C9_ContentCount(html.toks, u)

C9_Witness ==
    /\ pc = "x_done"
    /\ html = Html(<< ImgTok(TRUE, IconSrc, DigitsAttr(16), DigitsAttr(16)),
                      TextTok(<<Hello>>),
                      ImgTok(TRUE, IconSrc, DigitsAttr(800), DigitsAttr(600)) >>)
    /\ processed.text = <<Hello, Sp, Placeholder(IconSrc)>>
    /\ processed.images = <<IconSrc>>

\* C10: on absent, empty or whitespace-only markup the extraction returns
\* an empty bodyText and an empty images list, and does not raise.
C10_WhitespaceOnly(toks) ==
    \A i \in 1..Len(toks) :
        /\ toks[i].k = "text"
        /\ \A j \in 1..Len(toks[i].s) : toks[i].s[j] = Sp

C10_EmptyMarkup ==
    (pc = "x_done" /\ (~html.present \/ C10_WhitespaceOnly(html.toks))) =>
        /\ ~processed.raised
        /\ processed.text = <<>>
        /\ processed.images = <<>>

C10_Witness ==
    /\ pc = "x_done"
    /\ html = Html(<<TextTok(<<Sp>>), TextTok(<<Sp>>)>>)
    /\ ~processed.raised
    /\ processed.text = <<>>
    /\ processed.images = <<>>

\* C11: _save_cookies on a context that holds no cookie returns False,
\* leaves the session file and its directory as they were, and neither
\* creates the directory nor opens the file for writing.
C11_EmptySaveIsNoOp ==
    [][ (cookies = <<>> /\ result'.kind = "save")
            => /\ ~result'.ok
               /\ file' = file
               /\ \A i \in 1..Len(events') :
                      events'[i] \notin {"makedirs", "file_write"} ]_vars

\* a save of no cookies was refused where the directory was still missing
C11_Witness ==
    /\ result = StoreResult("save", FALSE)
    /\ cookies = <<>>
    /\ file = InDir(NoFile, "missing")
    /\ InEvents("save:failed")

\* C12: _load_cookies returns False, and applies no cookie to the browsing
\* context, whenever the session file does not exist, cannot be read, is not
\* JSON, or holds an empty array.
C12_NothingToLoad ==
    (result.kind = "load" /\ (file.state # "ok" \/ file.cookies = <<>>))
        => /\ ~result.ok
           /\ cookies = <<>>
           /\ ~InEvents("add_cookies")

\* a load of a session file that holds an empty array
C12_Witness ==
    /\ result = StoreResult("load", FALSE)
    /\ file.state = "ok"
    /\ file.cookies = <<>>
    /\ InEvents("file_read")

\* C13: when _save_cookies returns True the directory of the session file
\* exists, the file holds exactly the cookies of the context, and a load that
\* follows applies those cookies; when the write did not complete
\* _save_cookies returns False.
C13_SaveVerified ==
    result.kind = "save"
        => /\ result.ok
                => /\ file.dir # "missing"
                   /\ file.state = "ok"
                   /\ file.cookies = cookies
                   /\ cookies # <<>>
                   /\ load_cookies(file, <<>>, TRUE).ok
                   /\ \A addOk \in BOOLEAN :
                          LET r == load_cookies(file, <<>>, addOk)
                          IN  r.ok => r.cookies = cookies
           /\ ~InEvents("file_written") => ~result.ok

\* a save that succeeded after creating the missing directory
C13_Witness ==
    /\ result = StoreResult("save", TRUE)
    /\ InEvents("makedirs")
    /\ file.dir = "present"
    /\ file.cookies = StaleSession \o LiveSession

\* a selector matches an element that is visible
C14_VisibleMatch(m) == \E i \in 1..Len(m.elems) : m.elems[i]

\* C14: the validator's login check says logged in if and only if some
\* selector of auth_indicators matches a visible element, in which case the
\* first such selector wins and no later one is consulted, or, no selector
\* matching, the content contains one of logged_in_indicators in any case.
C14_Verdict ==
    pc = "p_done"
        => LET structural ==
                   { i \in 1..Len(view.probes) :
                       C14_VisibleMatch(view.probes[i]) }
           IN  /\ result.logged_in
                       <=> (structural # {} \/ ContentCheck(view.content))
               /\ structural # {}
                       => /\ result.selector \in structural
                          /\ \A i \in structural : result.selector <= i
                          /\ result.consulted = result.selector
                          /\ ~result.content_checked

\* C15: validate_medium_cookies returns a {valid, error} value on every path
\* and never raises; a session file that is missing, unreadable, not JSON or
\* empty gives valid = False without a browser being launched.
C15_ValidatorNeverRaises ==
    Returned("validate")
        => /\ result \in {Valid, Failure("invalid")}
           /\ (file.state # "ok" \/ file.cookies = <<>>)
                  => /\ result = Failure("invalid")
                     /\ ~InEvents("launch")
                     /\ ~InEvents("raise:launch")

\* the page URL contains "verify" when the login is checked
C16_VerifyUrl == view # NoView /\ Contains(Lower(view.url), verify)

\* C16: a login run that, after the credentials were submitted, is on a page
\* whose URL contains "verify" returns authenticated = False with the
\* two-factor reason and reads nothing more of the page; no selector of the
\* login check turns it into authenticated = True. Stated for the runs in
\* which no awaited call raised.
C16_TwoFactorStops ==
    (pc = "l_done" /\ C16_VerifyUrl
        /\ \A i \in 1..Len(events) :
              events[i] \notin {"raise:capture", "raise:content"})
        => /\ result = AuthResult(FALSE, "Two-factor authentication required. "
                                         \o "Manual login needed.")
           /\ ~InEvents("content")

\* the clicks and fills of _login_medium in the order of the flow, and the
\* reason returned when the control of each is missing
C17_Acts ==
    << "click:signin", "click:email_option", "fill:email", "click:continue",
       "fill:password", "click:password_signin" >>
C17_Reasons ==
    << "Sign In button not found on Medium homepage",
       "Email sign-in option not found", "Email input field not found",
       "Continue button not found", "None",
       "Sign in button not found after password entry" >>

\* C17: when no candidate of a step's selector chain is visible (sign-in,
\* email method, email field, continue, password sign-in) the run returns
\* authenticated = False with the reason naming that control, and no click or
\* fill of that step or of a later one is performed.
C17_MissingControlStops ==
    \A k \in {1, 2, 3, 4, 6} :
        InEvents("missing:" \o C17_Acts[k])
            => /\ pc = "l_done"
               /\ result = AuthResult(FALSE, C17_Reasons[k])
               /\ \A j \in k..Len(C17_Acts) : ~InEvents(C17_Acts[j])

\* C18: after a login that authenticated, the scrape calls _save_cookies
\* exactly once, before the article page is opened, and the outcome of the
\* save changes nothing of the run but the session file: the call goes on to
\* close the login page with the same pending value, browser, pages and
\* cookies whether the save succeeded or failed.
C18_SaveOnceOutcomeIgnored ==
    /\ [](( op = "scrape" /\ InEvents("login:authenticated")
            /\ pc \notin {"s_login", "s_save"} )
            => /\ Count(events, "save") = 1
               /\ \A i, j \in 1..Len(events) :
                     (events[i] = "save" /\ events[j] = "new_page:article")
                         => i < j)
    /\ [][ pc = "s_save"
              => /\ pc' = "s_login_close"
                 /\ UNCHANGED <<op, calls, short_url, browser, pages, cookies,
                                pending, result>> ]_vars

\* a scrape whose save failed and that returned the article
C18_Witness ==
    /\ Returned("scrape")
    /\ InEvents("login:authenticated")
    /\ InEvents("save:failed")
    /\ result.kind = "article"
    /\ result.text # <<>>

\* C19: the Images list _process_article_html returns holds no URL twice,
\* also when several img elements of the markup carry the same src.
C19_ImagesDistinct ==
    (pc = "x_done" /\ ~processed.raised)
        => \A i, j \in 1..Len(processed.images) :
              processed.images[i] = processed.images[j] => i = j

\* C20: a scrape whose page.goto(short_url) raised returns the navigation
\* failure, and the extraction failure is returned only when a step after a
\* navigation that succeeded failed.
C20_NavigationFailure ==
    Returned("scrape")
        => /\ InEvents("raise:goto") => result = Failure("navigationFailed")
           /\ result = Failure("extractionFailed") => ~InEvents("raise:goto")

\* C21: a capture that fails leaves the outcome of the run as it is when the
\* capture succeeds; in particular a login run whose login check found a
\* visible indicator returns authenticated = True whether or not
\* page.screenshot of line 903 succeeded.
C21_CaptureObservational ==
    (pc = "l_done" /\ InEvents("auth_check:true"))
        => result = AuthResult(TRUE, "None")

\* C22: the session file is replaced as a whole: after any save, also one
\* that failed midway, a reader finds the complete session the file held
\* before or the complete session of the context that was saved, never a
\* truncated or partial file (a file another process removed is absent).
C22_AtomicReplace ==
    [][ result'.kind = "save"
            => \/ file'.state = file.state /\ file'.cookies = file.cookies
               \/ file'.state = "ok" /\ file'.cookies = cookies
               \/ file'.state = "absent" ]_vars

\* C23: an image element with a source is kept as a content image exactly
\* when its source holds one of the image CDN fragments, or its width and
\* height are both integers above 100, or one of its nearest three ancestors
\* carries an article image class; an image meeting none of the three is
\* decorative.  The images list is therefore the sources, in document order,
\* of the elements that meet one of the three conditions.
C23_Tier1(img) ==
    \E p \in { <<"m","i","r","o",".","m","e","d","i","u","m",".","c","o","m">>,
                <<"/","r","e","s","i","z","e",":">>, <<"/","m","a","x","/">>,
                <<"/","f","i","t",":">>,
                <<"/","p","r","o","g","r","e","s","s","i","v","e",":">> } :
        \E k \in 0..Len(img.src) :
            /\ k + Len(p) <= Len(img.src)
            /\ SubSeq(img.src, k + 1, k + Len(p)) = p

C23_Tier2(img) ==
    /\ img.width.kind = "digits" /\ img.width.n >= 101
    /\ img.height.kind = "digits" /\ img.height.n >= 101

\* the positions of the elements enclosing position i, nearest first: going
\* back from i, an end tag hides the start tag it closes
RECURSIVE C23_Enclosing(_, _, _)
C23_Enclosing(toks, j, closed) ==
    IF j = 0 THEN <<>>
    ELSE IF toks[j].k = "close" THEN C23_Enclosing(toks, j - 1, closed + 1)
    ELSE IF toks[j].k = "open"
         THEN IF closed > 0 THEN C23_Enclosing(toks, j - 1, closed - 1)
              ELSE <<j>> \o C23_Enclosing(toks, j - 1, 0)
    ELSE C23_Enclosing(toks, j - 1, closed)

C23_Tier3(toks, i) ==
    LET enc == C23_Enclosing(toks, i - 1, 0)
    IN  \E n \in 1..3 :
            /\ n <= Len(enc)
            /\ \E c \in 1..Len(toks[enc[n]].cls) :
                   toks[enc[n]].cls[c] \in {"graf-image", "section-image",
                                            "post-image", "progressiveMedia"}

RECURSIVE C23_ContentSources(_, _)
C23_ContentSources(toks, i) ==
    IF i > Len(toks) THEN <<>>
    ELSE (IF /\ toks[i].k = "img" /\ toks[i].hasSrc /\ toks[i].src # <<>>
             /\ (C23_Tier1(toks[i]) \/ C23_Tier2(toks[i]) \/ C23_Tier3(toks, i))
          THEN <<toks[i].src>> ELSE <<>>) \o C23_ContentSources(toks, i + 1)

C23_ThreeTiers ==
    (pc = "x_done" /\ html.present) =>
        /\ ~processed.raised
        /\ processed.images = C23_ContentSources(html.toks, 1)

\* an image kept by its third-level ancestor alone
C23_Witness ==
    /\ pc = "x_done"
    /\ Len(html.toks) = 5
    /\ html.toks[2].cls = <<"post-image", "x">>
    /\ processed.images = <<IconSrc>>

\* C24: the container handed to the processing step is the markup of the
\* first candidate of article_selectors, in order, whose first match has
\* markup that is neither empty nor white space only; when no candidate has
\* such markup (missing, failing, empty or blank, whichever was looked at
\* last) the container is the page body.
C24_Usable(c) ==
    /\ c.kind = "found"
    /\ \E i \in 1..Len(c.html.toks) :
           \/ c.html.toks[i].k # "text"
           \/ \E j \in 1..Len(c.html.toks[i].s) : c.html.toks[i].s[j] # Sp

C24_FirstUsableOrBody ==
    (pc = "a_done" /\ result.kind = "article") =>
        IF \E i \in 1..NumArticleSelectors : C24_Usable(view.chain[i])
        THEN \E i \in 1..NumArticleSelectors :
                 /\ C24_Usable(view.chain[i])
                 /\ \A j \in 1..(i - 1) : ~C24_Usable(view.chain[j])
                 /\ html = view.chain[i].html
        ELSE view.body.kind = "found" => html = view.body.html

\* C29: the title of the result is the page title without " | Medium" when
\* the page title ends with it, and the page title itself otherwise; what
\* stands before the trailing suffix is kept.
C29_EndsWithSuffix(t) ==
    /\ Len(t) >= Len(MediumSuffix)
    /\ SubSeq(t, Len(t) - Len(MediumSuffix) + 1, Len(t)) = MediumSuffix

C29_TrailingSuffixRemoved ==
    (pc = "a_done" /\ result.kind = "article") =>
        result.Name = IF C29_EndsWithSuffix(view.title.value)
                      THEN SubSeq(view.title.value, 1,
                                  Len(view.title.value) - Len(MediumSuffix))
                      ELSE view.title.value

\* C30: _scrape_medium_article returns its dictionary for every page and
\* never raises, also when page.title(), page.content(), a candidate's
\* inner_html or the body's inner_html fails.
C30_ExtractNeverRaises ==
    pc = "a_done" => result.kind = "article"

\* C25: in a login run the actions happen in the order goto home, click
\* sign-in, click the email method, fill the email, click continue, fill the
\* password and click the password sign-in (both optional), login check; an
\* action happens only after the actions before it (the password sign-in
\* only after the password was filled, the login check after the password
\* sign-in when the password was filled), and the password is filled only
\* when the page shown after continue has a password field whose first match
\* is visible.
C25_Order ==
    << {"goto:home"}, {"click:signin"}, {"click:email_option"},
       {"fill:email"}, {"click:continue"}, {"fill:password"},
       {"click:password_signin"}, {"auth_check:true", "auth_check:false"} >>

C25_Needs(r) ==
    IF r = 8 THEN {5} ELSE IF r = 6 THEN {5} ELSE 1..(r - 1)

C25_InOrder ==
    \A i \in 1..Len(events) : \A r \in 1..Len(C25_Order) :
        events[i] \in C25_Order[r] =>
            /\ \A q \in C25_Needs(r) :
                   \E j \in 1..(i - 1) : events[j] \in C25_Order[q]
            /\ \A j \in 1..(i - 1), q \in r..Len(C25_Order) :
                   events[j] \notin C25_Order[q]
            /\ (r = 8 /\ \E j \in 1..(i - 1) : events[j] = "fill:password")
                   => \E j \in 1..(i - 1) : events[j] = "click:password_signin"

C25_PasswordField ==
    (~InEvents("fill:password") /\ InEvents("fill:password")')
        => /\ InEvents("click:continue")
           /\ \E k \in 1..Len(view'.probes) :
                  /\ ~view'.probes[k].raises
                  /\ Len(view'.probes[k].elems) > 0
                  /\ view'.probes[k].elems[1]

C25_FlowOrder == []C25_InOrder /\ [][C25_PasswordField]_vars

C25_Witness ==
    /\ pc = "l_done"
    /\ result = AuthResult(TRUE, "None")
    /\ events = << "goto:home", "click:signin", "click:email_option",
                   "fill:email", "click:continue", "fill:password",
                   "click:password_signin", "auth_check:true" >>

\* C26: every login run ends, with one AuthResult, after taking each step at
\* most once: the navigation, each click and each fill happen at most once
\* in a run, also after a missing control, a two-factor redirect, a CAPTCHA
\* or an exception, and the result, once returned, stays.
C26_OncePerStep ==
    \A e \in { "goto:home", "click:signin", "click:email_option",
                "fill:email", "click:continue", "fill:password",
                "click:password_signin" } :
        Cardinality({ i \in 1..Len(events) : events[i] = e }) <= 1

C26_OneResult ==
    /\ pc = "l_done" => (result.kind = "auth" /\ result' = result)
    /\ result # NoResult => result' = result

C26_Terminates ==
    /\ <>(pc = "l_done")
    /\ []C26_OncePerStep
    /\ [][C26_OneResult]_vars

C26_Witness ==
    /\ pc = "l_done"
    /\ result = AuthResult(FALSE, "Could not verify successful login.")
    /\ InEvents("click:password_signin")
    /\ InEvents("auth_check:false")

\* C27: a login run on a page whose content holds a CAPTCHA challenge ends
\* with authenticated = False and the reason "CAPTCHA detected. Manual login
\* required.", at whatever step the run is and whether or not the URL is a
\* verification URL as well.
C27_CaptchaShortCircuits ==
    (pc = "l_done" /\ Contains(Lower(view.content), captcha))
        => result = AuthResult(FALSE, "CAPTCHA detected. Manual login required.")

\* C28: the login check of the login flow and the validator's check give the
\* same verdict on every rendered page, pages where a selector matches more
\* than one element included.
C28_SameVerdict ==
    pc = "p_compared" => pending.authenticated = result.logged_in

\* C33: the images list is, element for element and in order, the URLs of
\* the [IMG: url] markers that the extraction put into bodyText: as many
\* markers as list entries, the i-th marker carrying the i-th URL.
C33_IsMarker(a) == Len(a) = 3 /\ a[1] = "[IMG: " /\ a[3] = "]"

C33_MarkersMatchImages ==
    pc = "x_done" =>
        LET markers == SelectSeq(processed.text, C33_IsMarker)
        IN  /\ Len(markers) = Len(processed.images)
            /\ \A i \in 1..Len(markers) : markers[i][2] = processed.images[i]

C33_Witness ==
    /\ pc = "x_done"
    /\ processed.images = <<IconSrc, CdnSrc>>
    /\ processed.text = <<Placeholder(IconSrc), Sp, Hello, Sp,
                          Placeholder(CdnSrc)>>

C32_Writes ==
    file' # file
        => /\ op = "scrape"
           /\ pc = "s_save"
           /\ InEvents("login:authenticated")
           /\ ~InEvents("add_cookies")

Requests == Count(events, "request")

\* C35: claude_conversation sends at most max_iterations requests to the
\* model and then returns, whatever the model answers and whatever the tools
\* return (tool requests on every turn, tool errors, timeouts, empty
\* responses).
C35_AtMostMaxIterations ==
    /\ [](op = "conversation" => Requests <= max_iterations)
    /\ <>(pc = "c_returned")

\* a conversation returned after tool requests on every one of its
\* max_iterations turns, the last one answered with an error
C35_Witness ==
    /\ op = "conversation"
    /\ pc = "c_returned"
    /\ max_iterations = MaxIterationsArg
    /\ Requests = max_iterations
    /\ iteration_count = max_iterations
    /\ conversation[Len(conversation)].type = "tool_result"
    /\ conversation[Len(conversation)].is_error
    /\ conversation[Len(conversation)].id[1] = max_iterations

\* C36: the conversation history that claude_conversation sends to the model
\* on any request never holds more than max_conversation_length messages,
\* also when one model turn requests several tools.
C36_AtMostMaxLength ==
    (op = "conversation" /\ pc = "c_request") =>
        Len(conversation) <= max_conversation_length

\* message i of the history is a tool_result right after the tool_use it
\* answers
C37_Paired(i) ==
    /\ i > 1
    /\ conversation[i - 1].role = "assistant"
    /\ conversation[i - 1].type = "tool_use"
    /\ conversation[i - 1].id = conversation[i].id

\* C37: in every request claude_conversation sends to the model, after any
\* number of tool turns and history trims, the history begins with a
\* user-role message and every tool_result message is immediately preceded by
\* the assistant message carrying the tool_use with the same id; trimming
\* never separates such a pair.
C37_WellFormedHistory ==
    (op = "conversation" /\ pc = "c_request") =>
        /\ conversation # <<>>
        /\ conversation[1].role = "user"
        /\ \A i \in 1..Len(conversation) :
               conversation[i].type = "tool_result" => C37_Paired(i)

\* the texts of the author links of a mail
C38_AuthorsOf(body) ==
    { body.sections[i].author_link.v : i \in 1..Len(body.sections) }
    \cup UNION { { body.sections[i].author_spans[j].text :
                      j \in 1..Len(body.sections[i].author_spans) } :
                    i \in 1..Len(body.sections) }

\* a URL string with scheme and host
C38_IsUrl(l) ==
    /\ ~urlparse(l).raises
    /\ urlparse(l).scheme # <<>>
    /\ urlparse(l).netloc # <<>>

\* C38: extract_medium_articles never raises and returns a JSON array in
\* which every article has a non-empty "Article Name", a "Link" that is a URL
\* string with scheme and host, and an "Author" that is the found author or
\* the sentinel "Unknown"; an email body that is not a Medium Daily Digest or
\* cannot be parsed yields the empty array.
C38_ArticlesWellFormed ==
    (op = "extract_medium_articles" /\ pc = "g_done") =>
        /\ \A i \in 1..Len(articles) :
              /\ articles[i].Name # <<>>
              /\ C38_IsUrl(articles[i].Link)
              /\ \/ articles[i].Author = Unknown
                 \/ /\ articles[i].Author # <<>>
                    /\ articles[i].Author \in C38_AuthorsOf(email_body)
        /\ (email_body.raises \/ ~email_body.digest) => articles = <<>>

\* a Link is what _get_short_url makes of it, and has no query and no fragment
C39_Stable(l) ==
    /\ get_short_url(l) = ShortUrl(l)
    /\ \A k \in 1..Len(l) : l[k] \notin {"?", "#"}

\* C39: _get_short_url is idempotent on its successful results (applying it
\* to a URL it returned gives the same URL, with no query or fragment), and
\* every URL it returns is accepted by scrape's URL validation, so a Link
\* produced by extract_medium_articles never makes scrape return
\* invalidInput.
C39_LinksAccepted ==
    /\ \A i \in 1..Len(articles) : C39_Stable(articles[i].Link)
    /\ (op = "scrape" /\ pc # "s_validate") => pc = "s_playwright"

\* scrape has accepted the Link made of a href with white space, an
\* upper-case scheme, parameters, a query and a fragment
C39_Witness ==
    /\ op = "scrape"
    /\ pc = "s_playwright"
    /\ Len(email_body.sections) = 1
    /\ email_body.sections[1].title_link.v =
          <<" ","H","T","T","P",":","/","/","m","/","a",";","p","?","q","#","f">>
    /\ short_url.s = HttpUrl

=============================================================================
